---- MODULE Spec2Model ----
(***************************************************************************)
(* A model of the query-routing layer of the Hantec Markets support        *)
(* chatbot: the pattern classifier (detectQueryCategory), the follow-up    *)
(* resolver (extractLastQuestion, detectQuestionType,                      *)
(* detectFollowUpResponse, convertQuestionToQuery), the response sanitizer *)
(* (cleanResponse), the confidence scorer (getConfidenceLevel) and the     *)
(* request pipeline (processQuery).                                        *)
(*                                                                         *)
(* JavaScript strings are TLA+ strings (sequences of characters): Len,     *)
(* SubSeq and \o are String.length, String.substring and +.  The module is *)
(* ASCII, so the pictographs of the source are written as single ASCII     *)
(* characters that occur nowhere else in the texts: "~" stands for the     *)
(* warning sign, "^" for its variation selector (the sign is two code      *)
(* units), and "{" "}" for the two code units of the light-bulb sign.      *)
(* Similarity scores are in hundredths (0.50 is 50).                       *)
(***************************************************************************)
EXTENDS Integers, Sequences, FiniteSets, TLC

VARIABLES
  \* one request through processQuery
  request,      \* the arguments: [query, queryIsString, history, historyIsArray]
  query,        \* the working query (the parameter `query`, reassigned at chains.js:413)
  pc,           \* position of the request in processQuery
  followUp,     \* followUpDetection (chains.js:351), or NoDetection
  queryCategory,\* chains.js:422
  results,      \* what searchVectorStore returned: [count, topScore]
  confidence,   \* chains.js:704
  pending,      \* the envelope built by the branch that is about to log and return
  outcome,      \* how the promise settled: "pending", "resolved" or "rejected"
  envelope,     \* the value the promise resolved to
  calls,        \* how often each collaborator was invoked during the request
  error,        \* the message of the error a step of the pipeline threw, "" if none
  logging,      \* what happened to the log writes of the request
  \* getConfidenceLevel as a pure function
  maxScore, documentCount, level, scorerPc,
  \* cleanResponse as a pure function
  text, once, twice, cleanerPc,
  \* detectQueryCategory as a pure function
  classifyInput, classifyOutput, classifierPc,
  \* the module state of vectorStore.js and the calls in progress on it
  vectorStore,            \* vectorStore.js:43; 0 is null, n the store that build n made
  isInitializing,         \* vectorStore.js:44
  initializationPromise,  \* vectorStore.js:45; 0 is null, n the promise of build n
  build,                  \* the state of each build: the async function of line 79
  started,                \* number of builds started so far
  caller,                 \* the callers of initializeVectorStore and searchVectorStore
  \* one POST /api/chat through the route handler of routes/chat.js
  body,         \* req.body: [query, queryIsString, conversationHistory, hasHistory]
  nodeEnv,      \* process.env.NODE_ENV
  routePc,      \* position of the handler
  http,         \* what the handler sent: the status and the fields of the JSON body
  \* two calls of processQuery in progress on the one thread
  running,      \* the call whose activation the request variables hold; 0 if unused
  suspended     \* the activation of the other call, waiting at an await or not yet begun

pipelineVars == <<request, query, pc, followUp, queryCategory, results, confidence,
                  pending, outcome, envelope, calls, error, logging>>
scorerVars == <<maxScore, documentCount, level, scorerPc>>
cleanerVars == <<text, once, twice, cleanerPc>>
classifierVars == <<classifyInput, classifyOutput, classifierPc>>
storeVars == <<vectorStore, isInitializing, initializationPromise, build, started, caller>>
routeVars == <<body, nodeEnv, routePc, http>>
concurrentVars == <<running, suspended>>
functionVars ==
  <<scorerVars, cleanerVars, classifierVars, storeVars, routeVars, concurrentVars>>
vars == <<pipelineVars, functionVars>>

----------------------------------------------------------------------------
(* Bounds of the model *)

\* scores range over -MaxScore..MaxScore hundredths (cosine similarity is in [-1, 1])
MaxScore == 100
\* document counts handed to the scorer on its own
MaxCount == 5
\* number of fragments a text given to the sanitizer is made of
MaxParts == 3
\* number of whitespace characters put around a query
MaxPad == 1
\* number of concurrent callers of the vector store
MaxCallers == 2
\* number of index builds that may be started
MaxBuilds == 2

----------------------------------------------------------------------------
(* JavaScript string primitives *)

UpperCaseLetters == "ABCDEFGHIJKLMNOPQRSTUVWXYZ"
LowerCaseLetters == "abcdefghijklmnopqrstuvwxyz"
DecimalDigits == "0123456789"

charAt(s, i) == SubSeq(s, i, i)

CharsOf(s) == {charAt(s, i) : i \in 1..Len(s)}

UpperSet == CharsOf(UpperCaseLetters)
LowerSet == CharsOf(LowerCaseLetters)
DigitSet == CharsOf(DecimalDigits)

LowerOf == [c \in UpperSet |->
              charAt(LowerCaseLetters,
                     CHOOSE i \in 1..Len(UpperCaseLetters) : charAt(UpperCaseLetters, i) = c)]

UpperOf == [c \in LowerSet |->
              charAt(UpperCaseLetters,
                     CHOOSE i \in 1..Len(LowerCaseLetters) : charAt(LowerCaseLetters, i) = c)]

\* The recursions over a string split it in halves, which keeps them shallow.
RECURSIVE toLowerCase(_)
toLowerCase(s) ==
  IF Len(s) = 0 THEN ""
  ELSE IF Len(s) = 1 THEN (IF s \in UpperSet THEN LowerOf[s] ELSE s)
  ELSE toLowerCase(SubSeq(s, 1, Len(s) \div 2))
         \o toLowerCase(SubSeq(s, Len(s) \div 2 + 1, Len(s)))

RECURSIVE toUpperCase(_)
toUpperCase(s) ==
  IF Len(s) = 0 THEN ""
  ELSE IF Len(s) = 1 THEN (IF s \in LowerSet THEN UpperOf[s] ELSE s)
  ELSE toUpperCase(SubSeq(s, 1, Len(s) \div 2))
         \o toUpperCase(SubSeq(s, Len(s) \div 2 + 1, Len(s)))

\* \s of a regular expression, and what trim() removes
isWhiteSpace(c) == c \in {" ", "\n", "\t", "\r"}

\* \w of a regular expression
isWordChar(c) == c \in UpperSet \cup LowerSet \cup DigitSet \cup {"_"}

RECURSIVE trimStart(_)
trimStart(s) ==
  IF s # "" /\ isWhiteSpace(charAt(s, 1)) THEN trimStart(SubSeq(s, 2, Len(s))) ELSE s

RECURSIVE trimEnd(_)
trimEnd(s) ==
  IF s # "" /\ isWhiteSpace(charAt(s, Len(s))) THEN trimEnd(SubSeq(s, 1, Len(s) - 1)) ELSE s

trim(s) == trimEnd(trimStart(s))

\* the literal p occurs in s at index i
matchesAt(s, p, i) == i >= 1 /\ i + Len(p) - 1 <= Len(s) /\ SubSeq(s, i, i + Len(p) - 1) = p

startsWith(s, p) == matchesAt(s, p, 1)

endsWith(s, p) == matchesAt(s, p, Len(s) - Len(p) + 1)

includes(s, p) == \E i \in 1..(Len(s) - Len(p) + 1) : matchesAt(s, p, i)

Min(S) == CHOOSE x \in S : \A y \in S : x <= y

\* index of the first occurrence of p in s at or after index from, 0 if there is none
indexOf(s, p, from) ==
  LET found == {i \in from..(Len(s) - Len(p) + 1) : matchesAt(s, p, i)}
  IN IF found = {} THEN 0 ELSE Min(found)

\* \b of a regular expression, between s[i-1] and s[i]
wordBoundaryAt(s, i) ==
  (i > 1 /\ i - 1 <= Len(s) /\ isWordChar(charAt(s, i - 1)))
    # (i >= 1 /\ i <= Len(s) /\ isWordChar(charAt(s, i)))

\* /lit/i.test(s) for some literal of lits: s is lower-cased, the literals are lower case
testAny(s, lits) == \E p \in lits : includes(s, p)

\* /\b(lit|lit|...)\b/i.test(s)
testAnyWord(s, lits) ==
  \E p \in lits : \E i \in 1..(Len(s) - Len(p) + 1) :
    matchesAt(s, p, i) /\ wordBoundaryAt(s, i) /\ wordBoundaryAt(s, i + Len(p))

\* the literals of an alternation (a|b) followed by (c|d)
Alternation(heads, tails) == {h \o t : h \in heads, t \in tails}

----------------------------------------------------------------------------
(* Confidence scorer: config.js *)

highThreshold == 50
mediumThreshold == 35
lowThreshold == 20
minDocuments == 2

\* a scorer whose high tier asks for a score above the threshold: it differs from
\* getConfidenceLevel exactly on the boundary score
getConfidenceLevelAboveThreshold(score, count) ==
  IF count = 0 \/ score < lowThreshold THEN "low"
  ELSE IF score > highThreshold /\ count >= minDocuments THEN "high"
  ELSE IF score >= mediumThreshold THEN "medium"
  ELSE "low"

getConfidenceLevel(score, count) ==
  IF count = 0 \/ score < lowThreshold THEN "low"
  ELSE IF score >= highThreshold /\ count >= minDocuments THEN "high"
  ELSE IF score >= mediumThreshold THEN "medium"
  ELSE "low"
----------------------------------------------------------------------------
(* Pattern classifier: detectQueryCategory, index.js:688-776 *)

\* /^(test|testing|hello test)$/i
testPatternsWhole == {"test", "testing", "hello test"}

\* /are you (working|alive|there|online)/i, /can you (hear|read|understand) me/i
testPatternsAnywhere ==
  Alternation({"are you "}, {"working", "alive", "there", "online"})
    \cup Alternation({"can you "}, {"hear me", "read me", "understand me"})

sillyPatterns ==
  Alternation({"what is "}, {"love", "life", "the meaning of life"})
    \cup Alternation({"tell me "}, {"a joke", "something funny", "a story"})
    \cup Alternation({"are you "}, {"real", "human", "a robot", "sentient", "ai", "gpt", "chatgpt"})
    \cup Alternation({"can you "}, {"dance", "sing", "rap", "play", "marry me"})
    \cup Alternation({"do you "}, {"love me", "like me", "hate me"})
    \cup Alternation({"what your ", "what' your ", "whats your ", "what's your "},
                     {"name", "age", "favorite", "birthday"})
    \cup Alternation({"who "}, {"created you", "made you", "built you"})
    \cup {"lol", "haha", "lmao", "rofl"}
    \cup Alternation({"say "}, {"hi", "hello", "something"})

\* inappropriate patterns without the group of hack, steal, fraud, scam and illegal
inappropriatePatternsWithoutFraud ==
  {"sex", "porn", "nude", "xxx", "nsfw"}
    \cup {"kill", "die", "suicide", "hurt", "violence"}
    \cup {"drug", "cocaine", "weed", "marijuana"}

inappropriatePatterns ==
  {"sex", "porn", "nude", "xxx", "nsfw"}
    \cup {"kill", "die", "suicide", "hurt", "violence"}
    \cup {"hack", "steal", "fraud", "scam", "illegal"}
    \cup {"drug", "cocaine", "weed", "marijuana"}

unrelatedTopics ==
  {"recipe", "cooking", "food", "pizza", "burger", "restaurant", "cake", "dinner"}
    \cup {"movie", "film", "series", "netflix", "youtube", "game", "gaming", "fortnite"}
    \cup Alternation({"football", "soccer", "basketball", "cricket", "baseball"},
                     {" match", " game", " score", " player"})
    \cup {"weather", "temperature", "rain", "sunny", "forecast", "climate"}
    \cup {"flight", "hotel", "vacation", "travel", "tourist", "trip", "holiday"}
    \cup {"doctor", "medicine", "symptoms", "disease", "headache", "fever"}
    \cup Alternation({"iphone", "android", "laptop", "computer", "playstation"},
                     {" buy", " best", " review"})
    \cup {"cat", "dog", "pet", "animal"}
    \cup {"school", "homework", "assignment"}

tradingKeywords ==
  {"trade", "trading", "trader", "forex", "cfd", "leverage", "spread", "pip",
   "platform", "mt4", "mt5", "metatrader", "social", "copy",
   "account", "deposit", "withdraw", "fund", "balance",
   "stock", "crypto", "bitcoin", "commodity", "gold", "oil",
   "index", "indices", "dow", "nasdaq", "sp500",
   "broker", "hantec", "regulation", "fca", "fsc",
   "chart", "indicator", "strategy", "signal",
   "risk", "profit", "loss", "margin", "swap",
   "buy", "sell", "long", "short", "position",
   "demo", "live", "cent", "global", "pro"}

\* The patterns carry the i flag and are tested against the query as given; the
\* trading keywords are searched in the lower-cased, trimmed query.
matchesTesting(q) ==
  toLowerCase(q) \in testPatternsWhole \/ testAny(toLowerCase(q), testPatternsAnywhere)

matchesSilly(q) == testAny(toLowerCase(q), sillyPatterns)

\* the inappropriate patterns without the i flag
matchesInappropriateCaseSensitive(q) == testAnyWord(q, inappropriatePatterns)

matchesInappropriate(q) == testAnyWord(toLowerCase(q), inappropriatePatterns)

matchesUnrelated(q) == testAnyWord(toLowerCase(q), unrelatedTopics)

matchesTrading(q) == \E keyword \in tradingKeywords : includes(trim(toLowerCase(q)), keyword)

\* a classifier that tests the inappropriate patterns before the silly ones
detectQueryCategoryInappropriateFirst(q) ==
  IF matchesTesting(q) THEN "testing"
  ELSE IF matchesInappropriate(q) THEN "inappropriate"
  ELSE IF matchesSilly(q) THEN "silly"
  ELSE IF matchesUnrelated(q) THEN "unrelated"
  ELSE IF matchesTrading(q) THEN "trading-related"
  ELSE "unknown"

\* a classifier with a group for greetings after the unrelated topics
detectQueryCategoryWithGreetings(q) ==
  IF matchesTesting(q) THEN "testing"
  ELSE IF matchesSilly(q) THEN "silly"
  ELSE IF matchesInappropriate(q) THEN "inappropriate"
  ELSE IF matchesUnrelated(q) THEN "unrelated"
  ELSE IF testAny(toLowerCase(q), {"hello", "good morning"}) THEN "greeting"
  ELSE IF matchesTrading(q) THEN "trading-related"
  ELSE "unknown"

detectQueryCategory(q) ==
  IF matchesTesting(q) THEN "testing"
  ELSE IF matchesSilly(q) THEN "silly"
  ELSE IF matchesInappropriate(q) THEN "inappropriate"
  ELSE IF matchesUnrelated(q) THEN "unrelated"
  ELSE IF matchesTrading(q) THEN "trading-related"
  ELSE "unknown"

\* PERSONALITY_RESPONSES (index.js:653-683): the number of canned texts per category
personalityResponseCount ==
  [c \in {"unrelated", "silly", "inappropriate", "testing"} |->
     IF c \in {"unrelated", "silly"} THEN 6 ELSE 3]

\* getPersonalityResponse (index.js:781-789): the texts Math.random can select; a
\* canned text is named by its place in PERSONALITY_RESPONSES
getPersonalityResponse(category) ==
  IF category \in DOMAIN personalityResponseCount
  THEN {"PERSONALITY_RESPONSES." \o category \o "[" \o charAt(DecimalDigits, i) \o "]" :
          i \in 1..personalityResponseCount[category]}
  ELSE {"PERSONALITY_RESPONSES.unrelated[0]"}

----------------------------------------------------------------------------
(* Escalation triggers: config.js:45-57, 493-498 *)

escalationTriggers ==
  {"cannot withdraw", "withdrawal problem", "withdrawal issue", "unauthorized trade",
   "account blocked", "account locked", "cannot access account",
   "pressure from manager", "manager forcing", "scam", "fraud"}

requiresEscalation(q) == \E trigger \in escalationTriggers : includes(toLowerCase(q), trigger)
----------------------------------------------------------------------------
(* Follow-up resolver: chains.js:152-320 *)

\* text.split('\n')
RECURSIVE split(_)
split(s) ==
  LET nl == indexOf(s, "\n", 1)
  IN IF nl = 0 THEN <<s>>
     ELSE <<SubSeq(s, 1, nl - 1)>> \o split(SubSeq(s, nl + 1, Len(s)))

\* an extraction that takes the last line with a question mark anywhere in it
extractLastQuestionAnywhere(t) ==
  IF t = "" THEN ""
  ELSE LET lines == split(t)
           isQuestion(i) == includes(lines[i], "?")
       IN IF \E i \in 1..Len(lines) : isQuestion(i)
          THEN trim(lines[CHOOSE i \in 1..Len(lines) :
                            isQuestion(i) /\ \A j \in (i + 1)..Len(lines) : ~isQuestion(j)])
          ELSE ""

\* The last line of the text that, trimmed, is not empty and ends with a question
\* mark; "" stands for null (a line that ends with "?" is never empty).
extractLastQuestion(t) ==
  IF t = "" THEN ""
  ELSE LET lines == split(t)
           isQuestion(i) == endsWith(trim(lines[i]), "?")
       IN IF \E i \in 1..Len(lines) : isQuestion(i)
          THEN trim(lines[CHOOSE i \in 1..Len(lines) :
                            isQuestion(i) /\ \A j \in (i + 1)..Len(lines) : ~isQuestion(j)])
          ELSE ""

interestPatterns ==
  {"would you like to know", "want to know", "interested in"}
    \cup Alternation({"would you like "}, {"to", "me to"})
    \cup Alternation({"want "}, {"to", "me to"})
    \cup {"shall i", "should i"}
    \cup Alternation({"can i "}, {"help", "explain", "tell"})
    \cup {"ready to"}
    \cup Alternation({"need "}, {"help with", "assistance with"})

knowledgePatterns ==
  {"how familiar are you"}
    \cup Alternation({"do you "}, {"know", "understand"})
    \cup Alternation({"have you "}, {"used", "tried", "heard of", "considered"})
    \cup Alternation({"are you "}, {"familiar with", "experienced with"})
    \cup Alternation({"what's your ", "what is your "}, {"experience", "level"})

detectQuestionType(question) ==
  IF question = "" THEN "unknown"
  ELSE IF testAny(toLowerCase(question), interestPatterns) THEN "interest"
  ELSE IF testAny(toLowerCase(question), knowledgePatterns) THEN "knowledge"
  ELSE "unknown"

\* each entry is a pattern /^entry$/i
affirmativePatterns ==
  {"yes", "yeah", "yep", "yup", "ya", "yea", "aye",
   "sure", "of course", "certainly", "please", "yes please",
   "that would be great", "that'd be great", "that would be nice",
   "i'd like that", "i would like that", "sounds good", "sounds great",
   "perfect", "ok", "okay", "alright", "all right", "cool",
   "fine", "works for me", "that works", "definitely", "absolutely",
   "for sure", "indeed", "why not", "let's do it", "let's go",
   "i'm in", "tell me", "tell me more", "tell me about it",
   "show me", "explain", "go ahead", "go on", "continue",
   "proceed", "i'm interested", "interested", "i want to know",
   "i would like to know", "i'd like to know", "i'd love to know",
   "i want to learn", "i'd like to learn", "curious", "i'm curious",
   "now", "right now", "today", "now please",
   "familiar", "very familiar", "quite familiar", "not familiar",
   "not very familiar", "somewhat familiar", "a bit", "a little",
   "a little bit", "beginner", "intermediate", "advanced",
   "expert", "new to this", "new", "learning", "experienced",
   "novice", "just starting", "getting started", "pro",
   "professional", "start", "begin", "let's start", "help me",
   "assist me", "guide me"}

negativePatterns ==
  {"no", "nope", "nah", "na", "nay", "no thanks",
   "no thank you", "not interested", "not really", "i'm good",
   "i'm ok", "i'm okay", "i'm fine", "all good", "not now",
   "not right now", "maybe later", "later", "some other time",
   "another time", "nothing", "nothing else", "that's all",
   "that's it", "i'm done", "all set", "that'll be all",
   "skip", "skip it", "skip that", "pass", "move on",
   "next", "next topic", "i don't", "i don't know",
   "i don't think so", "don't know", "don't think", "not sure",
   "i'm not sure", "unsure", "haven't", "not yet", "never",
   "i'm not", "unfamiliar", "not familiar", "nvm", "nevermind",
   "never mind", "forget it", "doesn't matter"}

\* affirmative patterns without the anchor at the end: a reply that starts with an
\* entry of the list matches
isAffirmativePrefix(q) ==
  \E pattern \in affirmativePatterns : startsWith(trim(toLowerCase(q)), pattern)

isAffirmative(q) == trim(toLowerCase(q)) \in affirmativePatterns

isNegative(q) == trim(toLowerCase(q)) \in negativePatterns

\* a resolver that does not look at the type of the question: every negative reply
\* is an answer about knowledge
detectFollowUpResponseUntyped(q, lastQuestion) ==
  LET questionType == detectQuestionType(lastQuestion)
  IN IF isAffirmative(q)
     THEN [isFollowUp |-> TRUE, responseType |-> "affirmative", questionType |-> questionType]
     ELSE IF isNegative(q)
     THEN [isFollowUp |-> TRUE, responseType |-> "negative", questionType |-> "knowledge"]
     ELSE [isFollowUp |-> FALSE, responseType |-> "neither", questionType |-> "unknown"]

\* a resolver that looks at the negative list before the affirmative list
detectFollowUpResponseNegativeFirst(q, lastQuestion) ==
  LET questionType == detectQuestionType(lastQuestion)
  IN IF isNegative(q)
     THEN IF questionType = "interest"
          THEN [isFollowUp |-> TRUE, responseType |-> "declined", questionType |-> "interest"]
          ELSE IF questionType = "knowledge"
          THEN [isFollowUp |-> TRUE, responseType |-> "negative", questionType |-> "knowledge"]
          ELSE [isFollowUp |-> TRUE, responseType |-> "declined", questionType |-> "unknown"]
     ELSE IF isAffirmative(q)
     THEN [isFollowUp |-> TRUE, responseType |-> "affirmative", questionType |-> questionType]
     ELSE [isFollowUp |-> FALSE, responseType |-> "neither", questionType |-> "unknown"]

detectFollowUpResponse(q, lastQuestion) ==
  LET questionType == detectQuestionType(lastQuestion)
  IN IF isAffirmative(q)
     THEN [isFollowUp |-> TRUE, responseType |-> "affirmative", questionType |-> questionType]
     ELSE IF isNegative(q)
     THEN IF questionType = "interest"
          THEN [isFollowUp |-> TRUE, responseType |-> "declined", questionType |-> "interest"]
          ELSE IF questionType = "knowledge"
          THEN [isFollowUp |-> TRUE, responseType |-> "negative", questionType |-> "knowledge"]
          ELSE [isFollowUp |-> TRUE, responseType |-> "declined", questionType |-> "unknown"]
     ELSE [isFollowUp |-> FALSE, responseType |-> "neither", questionType |-> "unknown"]

\* the alternatives of the question-starter pattern, in the order the pattern tries them
starterPrefixes ==
  <<"would you like to know", "are you interested in", "do you want to know",
    "want to know", "interested in learning", "how familiar are you with",
    "have you considered">>

\* question.replace(/^(starter|...)/i, '')
removeStarter(q) ==
  IF \E k \in 1..Len(starterPrefixes) : startsWith(toLowerCase(q), starterPrefixes[k])
  THEN LET k == CHOOSE k \in 1..Len(starterPrefixes) :
                  /\ startsWith(toLowerCase(q), starterPrefixes[k])
                  /\ \A j \in 1..(k - 1) : ~startsWith(toLowerCase(q), starterPrefixes[j])
       IN SubSeq(q, Len(starterPrefixes[k]) + 1, Len(q))
  ELSE q

\* query.replace(/familiar|experience/gi, 'advanced strategies')
RECURSIVE replaceFamiliarity(_)
replaceFamiliarity(s) ==
  LET lowered == toLowerCase(s)
      starts == {i \in 1..Len(s) :
                   matchesAt(lowered, "familiar", i) \/ matchesAt(lowered, "experience", i)}
      first == Min(starts)
      matched == IF matchesAt(lowered, "familiar", first) THEN "familiar" ELSE "experience"
  IN IF starts = {} THEN s
     ELSE SubSeq(s, 1, first - 1) \o "advanced strategies"
            \o replaceFamiliarity(SubSeq(s, first + Len(matched), Len(s)))

\* a conversion that keeps the starter prefix of the question
convertQuestionToQueryWithStarter(question, responseType) ==
  LET unmarked == trim(IF endsWith(question, "?")
                       THEN SubSeq(question, 1, Len(question) - 1) ELSE question)
  IN IF responseType = "negative" THEN "how to " \o unmarked
     ELSE IF responseType = "affirmative"
               /\ (includes(toLowerCase(unmarked), "familiar")
                     \/ includes(toLowerCase(unmarked), "experience"))
     THEN replaceFamiliarity(unmarked)
     ELSE unmarked

\* The result is a string; "" is the falsy result that leaves the query as it was.
convertQuestionToQuery(question, responseType) ==
  LET unmarked == trim(IF endsWith(question, "?")
                       THEN SubSeq(question, 1, Len(question) - 1) ELSE question)
      stripped == trim(removeStarter(unmarked))
  IN IF responseType = "negative" THEN "how to " \o stripped
     ELSE IF responseType = "affirmative"
               /\ (includes(toLowerCase(stripped), "familiar")
                     \/ includes(toLowerCase(stripped), "experience"))
     THEN replaceFamiliarity(stripped)
     ELSE stripped
----------------------------------------------------------------------------
(* Response sanitizer: cleanResponse, chains.js:108-149 *)

\* index of the first character at or after i that \s does not match
RECURSIVE skipWhiteSpace(_, _)
skipWhiteSpace(s, i) ==
  IF i <= Len(s) /\ isWhiteSpace(charAt(s, i)) THEN skipWhiteSpace(s, i + 1) ELSE i

\* index after an optional colon at i
skipColon(s, i) == IF matchesAt(s, ":", i) THEN i + 1 ELSE i

\* index of the line feed that ends the line of index i, Len(s) + 1 on the last line
endOfLine(s, i) == IF indexOf(s, "\n", i) = 0 THEN Len(s) + 1 ELSE indexOf(s, "\n", i)

\* index after [^\n]*\n? matched from i
afterLine(s, i) == IF endOfLine(s, i) <= Len(s) THEN endOfLine(s, i) + 1 ELSE endOfLine(s, i)

\* index after [\s\S]*?(?=\n\n|$) matched from i
beforeBlankLine(s, i) == IF indexOf(s, "\n\n", i) = 0 THEN Len(s) + 1 ELSE indexOf(s, "\n\n", i)

\* Where a match of one of the sanitizer's patterns that starts at index i of the
\* lower-cased text ends (the index after it), 0 when the pattern does not match at i.
matchEnd(pattern, s, i) ==
  CASE pattern = "warning-sign bold risk warning" ->
         \* /~^\s*\*\*Risk Warning:?\*\*[^\n]*\n?/gi
         LET a == skipWhiteSpace(s, i + 2)
             b == skipColon(s, a + Len("**risk warning"))
         IN IF matchesAt(s, "~^", i) /\ matchesAt(s, "**risk warning", a) /\ matchesAt(s, "**", b)
            THEN afterLine(s, b + 2) ELSE 0
    [] pattern = "warning-sign risk warning" ->
         \* /~^\s*Risk Warning:?[^\n]*\n?/gi
         LET a == skipWhiteSpace(s, i + 2)
         IN IF matchesAt(s, "~^", i) /\ matchesAt(s, "risk warning", a)
            THEN afterLine(s, a + Len("risk warning")) ELSE 0
    [] pattern = "bold risk warning" ->
         \* /\*\*Risk Warning:?\*\*[^\n]*\n?/gi
         LET b == skipColon(s, i + Len("**risk warning"))
         IN IF matchesAt(s, "**risk warning", i) /\ matchesAt(s, "**", b)
            THEN afterLine(s, b + 2) ELSE 0
    [] pattern = "risk warning" ->
         \* /Risk Warning:?.*?\n/gi: the line feed is required
         IF matchesAt(s, "risk warning", i)
              /\ endOfLine(s, i + Len("risk warning")) <= Len(s)
              /\ ~includes(SubSeq(s, i, endOfLine(s, i + Len("risk warning"))), "\r")
         THEN endOfLine(s, i + Len("risk warning")) + 1 ELSE 0
    [] pattern = "warning-sign bold important" ->
         \* /~^\s*\*\*Important:?\*\*[^\n]*risk[^\n]*\n?/gi
         LET a == skipWhiteSpace(s, i + 2)
             b == skipColon(s, a + Len("**important"))
         IN IF matchesAt(s, "~^", i) /\ matchesAt(s, "**important", a) /\ matchesAt(s, "**", b)
                 /\ includes(SubSeq(s, b + 2, endOfLine(s, b + 2) - 1), "risk")
            THEN afterLine(s, b + 2) ELSE 0
    [] pattern = "bold important" ->
         \* /\*\*Important:?\*\*[^\n]*risk[^\n]*\n?/gi
         LET b == skipColon(s, i + Len("**important"))
         IN IF matchesAt(s, "**important", i) /\ matchesAt(s, "**", b)
                 /\ includes(SubSeq(s, b + 2, endOfLine(s, b + 2) - 1), "risk")
            THEN afterLine(s, b + 2) ELSE 0
    [] pattern = "light-bulb suggestions" ->
         \* /{}\s*You might also want to know:?[\s\S]*?(?=\n\n|$)/gi
         LET a == skipWhiteSpace(s, i + 2)
         IN IF matchesAt(s, "{}", i) /\ matchesAt(s, "you might also want to know", a)
            THEN beforeBlankLine(s, skipColon(s, a + Len("you might also want to know")))
            ELSE 0
    [] pattern = "bold suggestions" ->
         \* /\*\*You might also want to know:?\*\*[\s\S]*?(?=\n\n|$)/gi
         LET b == skipColon(s, i + Len("**you might also want to know"))
         IN IF matchesAt(s, "**you might also want to know", i) /\ matchesAt(s, "**", b)
            THEN beforeBlankLine(s, b + 2) ELSE 0
    [] pattern = "suggestions" ->
         \* /You might also want to know:?[\s\S]*?(?=\n\n|$)/gi
         IF matchesAt(s, "you might also want to know", i)
         THEN beforeBlankLine(s, skipColon(s, i + Len("you might also want to know")))
         ELSE 0
    [] pattern = "bold marker" ->
         \* /\*\*/g
         IF matchesAt(s, "**", i) THEN i + 2 ELSE 0

\* cleaned.replace(pattern, ''): the matches are taken from the left and do not
\* overlap; lowered is the text lower-cased, which is how the i flag compares
RECURSIVE removeFrom(_, _, _, _)
removeFrom(pattern, s, lowered, from) ==
  LET starts == {i \in from..Len(s) : matchEnd(pattern, lowered, i) > 0}
  IN IF starts = {} THEN SubSeq(s, from, Len(s))
     ELSE SubSeq(s, from, Min(starts) - 1)
            \o removeFrom(pattern, s, lowered, matchEnd(pattern, lowered, Min(starts)))

remove(pattern, s) == removeFrom(pattern, s, toLowerCase(s), 1)

removeRiskWarnings(s) ==
  remove("bold important",
    remove("warning-sign bold important",
      remove("risk warning",
        remove("bold risk warning",
          remove("warning-sign risk warning",
            remove("warning-sign bold risk warning", s))))))

removeSuggestionBlocks(s) ==
  remove("suggestions", remove("bold suggestions", remove("light-bulb suggestions", s)))

solicitations == {"would you like", "interested in", "need help", "want to", "are you"}

RECURSIVE skipDigits(_, _)
skipDigits(s, i) ==
  IF i <= Len(s) /\ charAt(s, i) \in DigitSet THEN skipDigits(s, i + 1) ELSE i

\* /^\d+\.\s+(Would you like|Interested in|Need help|Want to|Are you)/i.test(line.trim())
isSuggestionLine(line) ==
  LET t == toLowerCase(trim(line))
      dot == skipDigits(t, 1)
      phrase == skipWhiteSpace(t, dot + 1)
  IN /\ dot > 1
     /\ matchesAt(t, ".", dot)
     /\ phrase > dot + 1
     /\ \E p \in solicitations : matchesAt(t, p, phrase)

\* /^Sources?:.*$/im.test(line)
isSourcesLine(line) ==
  startsWith(toLowerCase(line), "source:") \/ startsWith(toLowerCase(line), "sources:")

\* lines.join('\n')
RECURSIVE join(_)
join(lines) ==
  IF Len(lines) = 0 THEN ""
  ELSE IF Len(lines) = 1 THEN lines[1]
  ELSE lines[1] \o "\n" \o join(Tail(lines))

removeSuggestionLines(s) ==
  join(SelectSeq(split(s), LAMBDA line : ~isSuggestionLine(line)))

\* cleaned.replace(/^Sources?:.*$/gim, ''): the line is emptied, its line feed stays
removeSourcesLines(s) ==
  join([k \in 1..Len(split(s)) |-> IF isSourcesLine(split(s)[k]) THEN "" ELSE split(s)[k]])

\* cleaned.replace(/\n{3,}/g, '\n\n'): of a run of three or more line feeds two stay
RECURSIVE collapseLineFeeds(_)
collapseLineFeeds(s) ==
  IF indexOf(s, "\n\n\n", 1) = 0 THEN s
  ELSE collapseLineFeeds(SubSeq(s, 1, indexOf(s, "\n\n\n", 1) - 1)
                           \o SubSeq(s, indexOf(s, "\n\n\n", 1) + 1, Len(s)))

cleanResponse(t) ==
  IF t = "" THEN ""
  ELSE trim(collapseLineFeeds(
         removeSourcesLines(
           remove("bold marker",
             removeSuggestionLines(
               removeSuggestionBlocks(
                 removeRiskWarnings(t)))))))
----------------------------------------------------------------------------
(* The inputs of a request *)

\* APP_CONFIG.supportEmail when SUPPORT_EMAIL is not set in the environment
supportEmail == "support@hmarkets.com"

Turn(role, content) == [role |-> role, content |-> content]

InterestQuestionText ==
  "Leverage lets you control larger positions.\nWould you like to know more about leverage?"
KnowledgeQuestionText == "How familiar are you with leverage?"
OtherKnowledgeQuestionText == "Do you know about margin?"
UnknownQuestionText == "Spreads start from 0.1 pips.\nDoes that help?"
EarlierQuestionText == "Is that clear?\nLet me know.  "
BareStarterText == "Would you like to know?"
BareKnowledgeText == "How familiar are you with?"
TwoQuestionsText ==
  "Would you like to know about margin?\nWould you like to know more about leverage?"
NoQuestionText == "Leverage lets you control larger positions."
QuestionMarkInsideText == "You asked: what is a pip? Here is the answer."

\* assistant texts that end in a question the resolver types
QuestionTexts ==
  {InterestQuestionText, KnowledgeQuestionText, OtherKnowledgeQuestionText,
   UnknownQuestionText, EarlierQuestionText, BareStarterText}

\* assistant texts with no line that ends in a question mark
PlainTexts == {NoQuestionText, QuestionMarkInsideText, ""}

Histories ==
  {<<>>}
    \cup {<<Turn("user", "What is leverage?"), Turn("assistant", t)>> :
            t \in QuestionTexts \cup PlainTexts}
    \cup {<<Turn("assistant", InterestQuestionText), Turn("user", "no")>>}

\* the closed-set replies of the resolver, as typed
ClosedReplies == affirmativePatterns \cup negativePatterns

\* spaces put around a query
RECURSIVE Spaces(_)
Spaces(n) == IF n = 0 THEN "" ELSE " " \o Spaces(n - 1)

Paddings == {Spaces(n) : n \in 0..MaxPad}

\* a query in its three letter casings, with whitespace around it
Variants(q) ==
  {l \o c \o r : l \in Paddings, r \in Paddings, c \in {q, toLowerCase(q), toUpperCase(q)}}

FreeQueries ==
  {"I can't withdraw my money", "What's the weather today?", "What is leverage?",
   "I cannot withdraw my funds", "my account locked", "is this a scam",
   "how to hack", "lol sex", "are you alive or did you die", "tell me a joke",
   "test", "hello there", "pizza or forex", "yes I would", "no thanks to that",
   "say hi to fraud", "fraud on my account"}

\* the reply "no" and the reply "yes" in other casings and with whitespace around them
ReplyVariants == Variants("No") \cup Variants("Yes")

\* processQuery(query, conversationHistory): the arguments of a call.  A query that
\* is no string (a number, null) and a history that is null are arguments as well.
Requests ==
  [query : FreeQueries \cup {"", "  "}, queryIsString : {TRUE},
   history : Histories, historyIsArray : {TRUE}]
    \cup [query : ClosedReplies \cup ReplyVariants, queryIsString : {TRUE},
          history : {<<Turn("assistant", t)>> :
                       t \in {InterestQuestionText, KnowledgeQuestionText,
                              OtherKnowledgeQuestionText, UnknownQuestionText,
                              NoQuestionText, QuestionMarkInsideText}},
          historyIsArray : {TRUE}]
    \cup [query : {"yes", "no"}, queryIsString : {TRUE},
          history : {<<Turn("assistant", BareKnowledgeText)>>}, historyIsArray : {TRUE}]
    \cup [query : {"yes", "no", "What is leverage?"}, queryIsString : {TRUE},
          history : {<<Turn("assistant", TwoQuestionsText)>>}, historyIsArray : {TRUE}]
    \cup [query : {""}, queryIsString : {FALSE}, history : {<<>>}, historyIsArray : {TRUE}]
    \cup [query : {"What is leverage?"}, queryIsString : {TRUE},
          history : {<<>>}, historyIsArray : {FALSE}]

\* chat.js:30
maxQueryLength == 500

\* n copies of s
RECURSIVE Repeat(_, _)
Repeat(s, n) ==
  IF n = 0 THEN ""
  ELSE IF n % 2 = 0 THEN Repeat(s, n \div 2) \o Repeat(s, n \div 2)
  ELSE s \o Repeat(s, n - 1)

RouteQueries ==
  {"What is leverage?", "I can't withdraw my money", "tell me a joke", "no", "", "  ",
   Repeat("a", maxQueryLength), Repeat("a", maxQueryLength + 1)}

\* req.body: a query that is a string or is not, with or without a history
RouteBodies ==
  [query : RouteQueries, queryIsString : {TRUE},
   conversationHistory : {<<>>, <<Turn("assistant", InterestQuestionText)>>},
   hasHistory : {TRUE}]
    \cup [query : {"What is leverage?"}, queryIsString : {TRUE},
          conversationHistory : {<<>>}, hasHistory : {FALSE}]
    \cup [query : {""}, queryIsString : {FALSE},
          conversationHistory : {<<>>}, hasHistory : {TRUE}]

\* the arguments the route handler passes to processQuery for a body it accepts:
\* processQuery(query, conversationHistory || []), chat.js:42
RouteRequest(b) ==
  [query |-> b.query, queryIsString |-> TRUE,
   history |-> IF b.hasHistory THEN b.conversationHistory ELSE <<>>,
   historyIsArray |-> TRUE]

\* Every call of processQuery the model makes.  The functions of the resolver and
\* the classifier are tabulated over the arguments of these calls; the pipeline
\* looks the results up.
AllRequests == Requests \cup {RouteRequest(b) : b \in RouteBodies}

\* the question the resolver is given, "" when follow-up handling does not apply
LastQuestionOf(history) ==
  IF Len(history) > 0
       /\ history[Len(history)].role = "assistant"
       /\ history[Len(history)].content # ""
  THEN extractLastQuestion(history[Len(history)].content)
  ELSE ""

lastQuestionOf == [h \in {r.history : r \in AllRequests} |-> LastQuestionOf(h)]

LastQuestions == {lastQuestionOf[h] : h \in DOMAIN lastQuestionOf}

\* convertQuestionToQuery(lastQuestion, followUpDetection.responseType), chains.js:409
followUpQueryOf ==
  [l \in LastQuestions, t \in {"affirmative", "negative", "declined", "neither"} |->
     convertQuestionToQuery(l, t)]

\* the values the working query takes
WorkingQueries ==
  {r.query : r \in AllRequests} \cup {followUpQueryOf[x] : x \in DOMAIN followUpQueryOf}

\* detectFollowUpResponse(query, lastQuestion), chains.js:351
followUpOf == [q \in WorkingQueries, l \in LastQuestions |-> detectFollowUpResponse(q, l)]

\* detectQueryCategory(query), chains.js:422
categoryOf == [q \in WorkingQueries |-> detectQueryCategory(q)]

\* searchVectorStore(query) asks for k = 3 documents (vectorStore.js:174)
topK == 3

\* what searchVectorStore may return: the number of documents and the score of the
\* first, around the thresholds of the scorer
SearchResults ==
  {[count |-> 0, topScore |-> 0],
   [count |-> topK, topScore |-> lowThreshold - 1],
   [count |-> minDocuments, topScore |-> mediumThreshold - 1],
   [count |-> minDocuments, topScore |-> mediumThreshold],
   [count |-> minDocuments - 1, topScore |-> highThreshold],
   [count |-> minDocuments, topScore |-> highThreshold],
   [count |-> topK, topScore |-> MaxScore]}

\* completions of the hosted model
RawCompletions ==
  {"Leverage lets you control larger positions.\n\nWould you like to know more?",
   " **Leverage** multiplies exposure.\n~^ **Risk Warning:** losses grow too.\nSources: faq.txt\n",
   "  "}

\* the sanitized text of each completion: cleanResponse(aiResponse.trim()), chains.js:771
finalResponse == [aiResponse \in RawCompletions |-> cleanResponse(trim(aiResponse))]

\* messages of the errors the collaborators throw
UpstreamErrors == {"Request timeout", "429 rate limit exceeded", "Incorrect API key provided"}
----------------------------------------------------------------------------
(* Logging collaborators *)

\* logChatInteraction (part_002:23-38): the write is inside try/catch, so the call
\* returns whether or not the file write throws
logChatInteraction(writeThrows) == "returned"

\* a logError without the try/catch around the write
logErrorUnguarded(writeThrows) == IF writeThrows THEN "threw" ELSE "returned"

\* logError (part_002:63-78): likewise
logError(writeThrows) == "returned"

\* what the webhook call of logToGoogleSheets may do
SheetsOutcomes == {"unconfigured", "ok", "http-error", "rejected"}

\* a logToGoogleSheets without the try/catch around fetch
logToGoogleSheetsUnguarded(sheets) == IF sheets = "rejected" THEN "threw" ELSE "returned"

\* logToGoogleSheets (chains.js:27-64): without a webhook URL it returns at once; a
\* status that is not OK is printed; a rejected fetch is caught
logToGoogleSheets(sheets) == "returned"

----------------------------------------------------------------------------
(* Envelopes: the values processQuery returns *)

NoEnvelope == [response |-> "", confidence |-> "none", sources |-> <<>>, metadata |-> "none"]

NoDetection == [isFollowUp |-> FALSE, responseType |-> "none", questionType |-> "none"]

NoResults == [count |-> 0, topScore |-> 0]

NoCalls ==
  [detectQueryCategory |-> 0, initializeVectorStore |-> 0, searchVectorStore |-> 0,
   chain |-> 0, logChatInteraction |-> 0, logToGoogleSheets |-> 0, logError |-> 0]

NoLogging == [file |-> "none", sheets |-> "none"]

declinedResponses ==
  {"No problem! Is there anything else you'd like to know about Hantec Markets?",
   "Sure, no worries! What else can I help you with?",
   "That's fine! Feel free to ask me anything else about Hantec Markets.",
   "Understood! Is there something else you'd like to explore?",
   "Got it! Let me know if you need help with anything else.",
   "No problem at all! What else are you curious about?"}

\* RESPONSE_TEMPLATES.escalation(supportEmail, issue), config.js:399-408 (the three
\* pictographs that start the contact lines are left out)
escalationTemplate(email, issue) ==
  "I understand this is urgent and needs immediate attention.\n\n"
    \o "**Please contact our support team right away:**\n"
    \o "- Email: " \o email \o "\n"
    \o "- Live Chat: Available 24/5 on hmarkets.com\n"
    \o "- Phone: +41-22-551-0215\n\n"
    \o "They can access your account details and help resolve " \o issue
    \o " immediately. This is a priority issue and will be addressed promptly."

\* chains.js:712-714
fallbackResponse ==
  "I don't have specific information about that in my knowledge base. "
    \o "For the most accurate details, please contact our support team at "
    \o supportEmail \o ".\n\nWhat else would you like to know about Hantec Markets?"

\* chains.js:825
errorResponse ==
  "I encountered an error processing your request. Please try again or contact support at "
    \o supportEmail

\* a table in which the silly branch answers with the confidence of the testing branch
personalityConfidenceSwapped ==
  [c \in {"inappropriate", "testing", "silly", "greeting", "about_ai", "unrelated"} |->
     CASE c = "inappropriate" -> "blocked"
       [] c = "testing" -> "medium"
       [] c = "silly" -> "medium"
       [] c = "greeting" -> "high"
       [] c = "about_ai" -> "high"
       [] c = "unrelated" -> "low"]

\* the confidence of the canned reply of each personality branch, chains.js:425-640
personalityConfidence ==
  [c \in {"inappropriate", "testing", "silly", "greeting", "about_ai", "unrelated"} |->
     CASE c = "inappropriate" -> "blocked"
       [] c = "testing" -> "medium"
       [] c = "silly" -> "low"
       [] c = "greeting" -> "high"
       [] c = "about_ai" -> "high"
       [] c = "unrelated" -> "low"]

Envelope(response, conf, metadata) ==
  [response |-> response, confidence |-> conf, sources |-> <<>>, metadata |-> metadata]

----------------------------------------------------------------------------
(* processQuery, chains.js:325-833 *)

Called(name) == [calls EXCEPT ![name] = @ + 1]

\* a branch has built its envelope: it calls logChatInteraction and then awaits
\* logToGoogleSheets; an exception out of the logger would go to the catch block
LogAndReturn(env, writeThrows) ==
  /\ logging' = [logging EXCEPT !.file = IF writeThrows THEN "threw" ELSE "written"]
  /\ IF logChatInteraction(writeThrows) = "returned"
     THEN /\ pending' = env
          /\ pc' = "log"
          /\ error' = error
     ELSE /\ pending' = pending
          /\ pc' = "catch"
          /\ error' = "log write failed"

Throw(message) ==
  /\ pc' = "catch"
  /\ error' = message

\* chains.js:326-334: the first statements of the try block and the validation
Validate ==
  /\ pc = "start"
  /\ Throw(IF ~request.queryIsString THEN "query.substring is not a function"
           ELSE IF ~request.historyIsArray
           THEN "Cannot read properties of null (reading 'length')"
           ELSE "Query cannot be empty")
  /\ ~request.queryIsString \/ ~request.historyIsArray \/ trim(query) = ""
  /\ UNCHANGED <<request, query, followUp, queryCategory, results, confidence, pending,
                 outcome, envelope, calls, logging>>
  /\ UNCHANGED functionVars

\* chains.js:339-419: follow-up handling
ResolveFollowUp ==
  /\ pc = "start"
  /\ request.queryIsString /\ request.historyIsArray /\ trim(query) # ""
  /\ LET lastQuestion == lastQuestionOf[request.history]
         detection == followUpOf[query, lastQuestion]
         followUpQuery == followUpQueryOf[lastQuestion, detection.responseType]
     IN IF lastQuestion = ""
        THEN /\ pc' = "classify"
             /\ UNCHANGED <<query, followUp, pending, error, calls, logging>>
        ELSE /\ followUp' = detection
             /\ IF detection.isFollowUp /\ detection.responseType = "declined"
                THEN /\ \E randomResponse \in declinedResponses, writeThrows \in BOOLEAN :
                          LogAndReturn(Envelope(randomResponse, "high", "declined"),
                                       writeThrows)
                     /\ calls' = Called("logChatInteraction")
                     /\ query' = query
                ELSE /\ pc' = "classify"
                     /\ query' = IF detection.isFollowUp /\ followUpQuery # ""
                                 THEN followUpQuery ELSE query
                     /\ UNCHANGED <<pending, error, calls, logging>>
  /\ UNCHANGED <<request, queryCategory, results, confidence, outcome, envelope>>
  /\ UNCHANGED functionVars

\* chains.js:421-640: the personality check
Classify ==
  /\ pc = "classify"
  /\ LET category == categoryOf[query]
     IN /\ queryCategory' = category
        /\ IF category \in DOMAIN personalityConfidence
           THEN /\ \E response \in getPersonalityResponse(category), writeThrows \in BOOLEAN :
                     LogAndReturn(Envelope(response, personalityConfidence[category], category),
                                  writeThrows)
                /\ calls' = [calls EXCEPT !.detectQueryCategory = @ + 1,
                                          !.logChatInteraction = @ + 1]
           ELSE /\ pc' = "init"
                /\ calls' = Called("detectQueryCategory")
                /\ UNCHANGED <<pending, error, logging>>
  /\ UNCHANGED <<request, query, followUp, results, confidence, outcome, envelope>>
  /\ UNCHANGED functionVars

\* chains.js:647: await initializeVectorStore()
InitializeStore ==
  /\ pc = "init"
  /\ calls' = Called("initializeVectorStore")
  /\ \/ pc' = "escalation" /\ error' = error
     \/ \E message \in UpstreamErrors : Throw(message)
  /\ UNCHANGED <<request, query, followUp, queryCategory, results, confidence, pending,
                 outcome, envelope, logging>>
  /\ UNCHANGED functionVars

\* chains.js:649-686: the escalation check
CheckEscalation ==
  /\ pc = "escalation"
  /\ IF requiresEscalation(query)
     THEN /\ \E writeThrows \in BOOLEAN :
               LogAndReturn(Envelope(escalationTemplate(supportEmail, "this issue"),
                                     "escalation", "escalated"),
                            writeThrows)
          /\ calls' = Called("logChatInteraction")
     ELSE /\ pc' = "search"
          /\ UNCHANGED <<pending, error, calls, logging>>
  /\ UNCHANGED <<request, query, followUp, queryCategory, results, confidence, outcome,
                 envelope>>
  /\ UNCHANGED functionVars

\* a retrieval step whose fallback looks at the number of documents only
SearchCountOnly ==
  /\ pc = "search"
  /\ \/ /\ \E message \in UpstreamErrors : Throw(message)
        /\ calls' = Called("searchVectorStore")
        /\ UNCHANGED <<results, confidence, pending, logging>>
     \/ \E found \in SearchResults :
          /\ results' = found
          /\ confidence' = getConfidenceLevel(found.topScore, found.count)
          /\ IF found.count = 0
             THEN /\ \E writeThrows \in BOOLEAN :
                       LogAndReturn(Envelope(fallbackResponse, "low",
                                             [retrievedDocs |-> 0, topScore |-> 0]),
                                    writeThrows)
                  /\ calls' = [calls EXCEPT !.searchVectorStore = @ + 1,
                                            !.logChatInteraction = @ + 1]
             ELSE /\ pc' = "generate"
                  /\ calls' = Called("searchVectorStore")
                  /\ UNCHANGED <<pending, error, logging>>
  /\ UNCHANGED <<request, query, followUp, queryCategory, outcome, envelope>>
  /\ UNCHANGED functionVars

\* chains.js:692-748: retrieval, the scorer and the fallback
Search ==
  /\ pc = "search"
  /\ \/ /\ \E message \in UpstreamErrors : Throw(message)
        /\ calls' = Called("searchVectorStore")
        /\ UNCHANGED <<results, confidence, pending, logging>>
     \/ \E found \in SearchResults :
          /\ results' = found
          /\ confidence' = getConfidenceLevel(found.topScore, found.count)
          /\ IF confidence' = "low" \/ found.count = 0
             THEN /\ \E writeThrows \in BOOLEAN :
                       LogAndReturn(Envelope(fallbackResponse, "low",
                                             [retrievedDocs |-> 0, topScore |-> 0]),
                                    writeThrows)
                  /\ calls' = [calls EXCEPT !.searchVectorStore = @ + 1,
                                            !.logChatInteraction = @ + 1]
             ELSE /\ pc' = "generate"
                  /\ calls' = Called("searchVectorStore")
                  /\ UNCHANGED <<pending, error, logging>>
  /\ UNCHANGED <<request, query, followUp, queryCategory, outcome, envelope>>
  /\ UNCHANGED functionVars

\* a completion step that returns the trimmed completion without the sanitizer
GenerateUnsanitized ==
  /\ pc = "generate"
  /\ \/ /\ \E message \in UpstreamErrors : Throw(message)
        /\ calls' = Called("chain")
        /\ UNCHANGED <<pending, logging>>
     \/ \E aiResponse \in RawCompletions, writeThrows \in BOOLEAN :
          /\ LogAndReturn(Envelope(trim(aiResponse), confidence,
                                   [retrievedDocs |-> results.count,
                                    topScore |-> results.topScore]),
                          writeThrows)
          /\ calls' = [calls EXCEPT !.chain = @ + 1, !.logChatInteraction = @ + 1]
  /\ UNCHANGED <<request, query, followUp, queryCategory, results, confidence, outcome,
                 envelope>>
  /\ UNCHANGED functionVars

\* chains.js:750-798: the completion call and the sanitizer
Generate ==
  /\ pc = "generate"
  /\ \/ /\ \E message \in UpstreamErrors : Throw(message)
        /\ calls' = Called("chain")
        /\ UNCHANGED <<pending, logging>>
     \/ \E aiResponse \in RawCompletions, writeThrows \in BOOLEAN :
          /\ LogAndReturn(Envelope(finalResponse[aiResponse], confidence,
                                   [retrievedDocs |-> results.count,
                                    topScore |-> results.topScore]),
                          writeThrows)
          /\ calls' = [calls EXCEPT !.chain = @ + 1, !.logChatInteraction = @ + 1]
  /\ UNCHANGED <<request, query, followUp, queryCategory, results, confidence, outcome,
                 envelope>>
  /\ UNCHANGED functionVars

\* await logToGoogleSheets(...) and the return statement of the branch
ReturnEnvelope ==
  /\ pc = "log"
  /\ \E sheets \in SheetsOutcomes :
       /\ logging' = [logging EXCEPT !.sheets = sheets]
       /\ IF logToGoogleSheets(sheets) = "returned"
          THEN /\ pc' = "done"
               /\ outcome' = "resolved"
               /\ envelope' = pending
               /\ error' = error
          ELSE /\ pc' = "catch"
               /\ error' = "webhook failed"
               /\ UNCHANGED <<outcome, envelope>>
  /\ calls' = Called("logToGoogleSheets")
  /\ UNCHANGED <<request, query, followUp, queryCategory, results, confidence, pending>>
  /\ UNCHANGED functionVars

\* a catch block that logs the error and throws it again
CatchRethrows ==
  /\ pc = "catch"
  /\ \E writeThrows \in BOOLEAN :
       logging' = [logging EXCEPT !.file = IF writeThrows THEN "threw" ELSE "written"]
  /\ outcome' = "rejected"
  /\ envelope' = envelope
  /\ pc' = "done"
  /\ calls' = Called("logError")
  /\ UNCHANGED <<request, query, followUp, queryCategory, results, confidence, pending,
                 error>>
  /\ UNCHANGED functionVars

\* chains.js:814-832: the catch block
Catch ==
  /\ pc = "catch"
  /\ \E writeThrows \in BOOLEAN :
       /\ logging' = [logging EXCEPT !.file = IF writeThrows THEN "threw" ELSE "written"]
       /\ IF logError(writeThrows) = "returned"
          THEN /\ outcome' = "resolved"
               /\ envelope' = Envelope(errorResponse, "error", [error |-> error])
          ELSE /\ outcome' = "rejected"
               /\ envelope' = envelope
  /\ pc' = "done"
  /\ calls' = Called("logError")
  /\ UNCHANGED <<request, query, followUp, queryCategory, results, confidence, pending,
                 error>>
  /\ UNCHANGED functionVars

PipelineIdle ==
  /\ request = [query |-> "", queryIsString |-> TRUE, history |-> <<>>, historyIsArray |-> TRUE]
  /\ query = ""
  /\ pc = "idle"
  /\ followUp = NoDetection
  /\ queryCategory = "none"
  /\ results = NoResults
  /\ confidence = "none"
  /\ pending = NoEnvelope
  /\ outcome = "pending"
  /\ envelope = NoEnvelope
  /\ calls = NoCalls
  /\ error = ""
  /\ logging = NoLogging

ScorerIdle == maxScore = 0 /\ documentCount = 0 /\ level = "none" /\ scorerPc = "idle"

CleanerIdle == text = "" /\ once = "" /\ twice = "" /\ cleanerPc = "idle"

ClassifierIdle == classifyInput = "" /\ classifyOutput = "none" /\ classifierPc = "idle"

StoreIdle ==
  /\ vectorStore = 0
  /\ isInitializing = FALSE
  /\ initializationPromise = 0
  /\ build = <<>>
  /\ started = 0
  /\ caller = <<>>

NoBody == [query |-> "", queryIsString |-> TRUE, conversationHistory |-> <<>>, hasHistory |-> FALSE]

NoHttp ==
  [status |-> 0, code |-> "", error |-> "", message |-> "", response |-> "",
   confidence |-> "", sources |-> <<>>, metadata |-> "none"]

\* the local variables of one call of processQuery
Activation ==
  [request |-> request, query |-> query, pc |-> pc, followUp |-> followUp,
   queryCategory |-> queryCategory, results |-> results, confidence |-> confidence,
   pending |-> pending, outcome |-> outcome, envelope |-> envelope, calls |-> calls,
   error |-> error, logging |-> logging]

NoActivation ==
  [request |-> [query |-> "", queryIsString |-> TRUE, history |-> <<>>,
                historyIsArray |-> TRUE],
   query |-> "", pc |-> "idle", followUp |-> NoDetection, queryCategory |-> "none",
   results |-> NoResults, confidence |-> "none", pending |-> NoEnvelope,
   outcome |-> "pending", envelope |-> NoEnvelope, calls |-> NoCalls, error |-> "",
   logging |-> NoLogging]

ConcurrentIdle == running = 0 /\ suspended = NoActivation

RouteIdle == body = NoBody /\ nodeEnv = "" /\ routePc = "idle" /\ http = NoHttp

\* a call processQuery(query, conversationHistory)
Init ==
  /\ request \in Requests
  /\ query = request.query
  /\ pc = "start"
  /\ followUp = NoDetection
  /\ queryCategory = "none"
  /\ results = NoResults
  /\ confidence = "none"
  /\ pending = NoEnvelope
  /\ outcome = "pending"
  /\ envelope = NoEnvelope
  /\ calls = NoCalls
  /\ error = ""
  /\ logging = NoLogging
  /\ ScorerIdle /\ CleanerIdle /\ ClassifierIdle /\ StoreIdle /\ RouteIdle /\ ConcurrentIdle

Next ==
  \/ Validate
  \/ ResolveFollowUp
  \/ Classify
  \/ InitializeStore
  \/ CheckEscalation
  \/ Search
  \/ Generate
  \/ ReturnEnvelope
  \/ Catch

Spec == Init /\ [][Next]_vars

----------------------------------------------------------------------------
(* Properties of processQuery *)

\* C3: processQuery("I can't withdraw my money", []) returns an envelope whose
\* confidence is 'escalation' and whose text contains the support address, and the
\* completion model is not invoked.  Stated for the calls in which no collaborator
\* throws.
C3_CantWithdrawEscalates ==
  (/\ request.query = "I can't withdraw my money"
   /\ request.queryIsString /\ request.historyIsArray
   /\ request.history = <<>>
   /\ pc = "done" /\ error = "")
    => /\ envelope.confidence = "escalation"
       /\ includes(envelope.response, "support@hmarkets.com")
       /\ calls.chain = 0

\* C4: processQuery never rejects: a call that ends has its promise resolved to an
\* envelope, whatever the query, the history and the failures of its steps, and
\* when a step has thrown the envelope has confidence 'error', no sources and a
\* text with the support address.
C4_NeverRejects ==
  /\ outcome # "rejected"
  /\ pc = "done" => outcome = "resolved" /\ envelope # NoEnvelope
  /\ (pc = "done" /\ error # "") =>
       /\ envelope.confidence = "error"
       /\ envelope.sources = <<>>
       /\ includes(envelope.response, "support@hmarkets.com")

\* retrieval timed out and the write of the error log failed as well
C4_Witness ==
  /\ pc = "done" /\ error = "Request timeout" /\ calls.searchVectorStore = 1
  /\ logging.file = "threw"
  /\ outcome = "resolved" /\ envelope.confidence = "error"

\* C5, as amended: when the last turn is an assistant turn whose last question is
\* an interest question or a question of unknown type, and the query is a negative
\* closed-set reply that is not also an affirmative one, the resolver yields
\* 'declined' and processQuery ends with one of the decline texts, confidence
\* 'high' and no sources, without the classifier, the index, retrieval or the
\* completion model.
C5_DeclinedEndsTheRequest ==
  (/\ request.queryIsString /\ request.historyIsArray
   /\ Len(request.history) > 0
   /\ request.history[Len(request.history)].role = "assistant"
   /\ extractLastQuestion(request.history[Len(request.history)].content) # ""
   /\ detectQuestionType(extractLastQuestion(request.history[Len(request.history)].content))
        \in {"interest", "unknown"}
   /\ toLowerCase(trim(request.query)) \in negativePatterns \ affirmativePatterns
   /\ pc # "start")
    => /\ followUp.isFollowUp /\ followUp.responseType = "declined"
       /\ query = request.query
       /\ calls.detectQueryCategory = 0 /\ calls.initializeVectorStore = 0
       /\ calls.searchVectorStore = 0 /\ calls.chain = 0
       /\ pc \in {"log", "done"}
       /\ pc = "done" =>
            /\ outcome = "resolved"
            /\ envelope.response \in declinedResponses
            /\ envelope.confidence = "high"
            /\ envelope.sources = <<>>

\* "No" in capitals and with a space after it, after a question of unknown type
C5_Witness ==
  /\ request.query = "NO " /\ request.history = <<Turn("assistant", UnknownQuestionText)>>
  /\ pc = "done" /\ envelope.response \in declinedResponses

\* C5, as the claim states it: the same for every negative closed-set reply.
C5_EveryNegativeReplyDeclines ==
  (/\ request.queryIsString /\ request.historyIsArray
   /\ Len(request.history) > 0
   /\ request.history[Len(request.history)].role = "assistant"
   /\ extractLastQuestion(request.history[Len(request.history)].content) # ""
   /\ detectQuestionType(extractLastQuestion(request.history[Len(request.history)].content))
        \in {"interest", "unknown"}
   /\ toLowerCase(trim(request.query)) \in negativePatterns
   /\ pc # "start")
    => /\ followUp.responseType = "declined"
       /\ calls.detectQueryCategory = 0 /\ calls.initializeVectorStore = 0
       /\ calls.searchVectorStore = 0 /\ calls.chain = 0
       /\ pc = "done" => envelope.response \in declinedResponses

C7_NoQuestionNoFollowUp ==
  (/\ request.queryIsString /\ request.historyIsArray
   /\ \/ request.history = <<>>
      \/ request.history[Len(request.history)].role # "assistant"
      \/ \A i \in 1..Len(split(request.history[Len(request.history)].content)) :
           ~endsWith(trim(split(request.history[Len(request.history)].content)[i]), "?"))
    => /\ query = request.query
       /\ followUp = NoDetection
       /\ pending.response \notin declinedResponses
       /\ envelope.response \notin declinedResponses

\* "no" after an assistant text whose only question mark is inside a line: the
\* request went on to the classifier with the query as typed
C7_Witness ==
  /\ request.query = "no"
  /\ request.history = <<Turn("assistant", QuestionMarkInsideText)>>
  /\ pc = "done" /\ calls.detectQueryCategory = 1 /\ query = "no"

\* C19: a query that, trimmed and lower-cased, is no entry of the affirmative list
\* and no entry of the negative list is not a follow-up reply: the resolver, when
\* it is called, answers isFollowUp false with responseType 'neither', the working
\* query stays the user's and the decline envelope is never returned.
C19_OnlyClosedRepliesAreFollowUps ==
  (/\ request.queryIsString /\ request.historyIsArray
   /\ trim(toLowerCase(request.query)) \notin affirmativePatterns \cup negativePatterns)
    => /\ query = request.query
       /\ ~followUp.isFollowUp
       /\ followUp # NoDetection
            => (followUp.responseType = "neither"
                  /\ followUp = detectFollowUpResponse(request.query,
                                                       LastQuestionOf(request.history)))
       /\ pending.response \notin declinedResponses
       /\ envelope.response \notin declinedResponses

\* "yes I would" after an assistant question of interest: the resolver was called,
\* found no follow-up, and the request finished with the query as typed
C19_Witness ==
  /\ request.query = "yes I would"
  /\ request.history
       = <<Turn("user", "What is leverage?"), Turn("assistant", InterestQuestionText)>>
  /\ followUp = [isFollowUp |-> FALSE, responseType |-> "neither", questionType |-> "unknown"]
  /\ pc = "done" /\ query = "yes I would" /\ calls.detectQueryCategory = 1

\* C20: when the question is empty once its final '?' and its starter prefix are
\* removed, convertQuestionToQuery returns the falsy result for the affirmative and
\* for the negative reply alike, and the working query stays the user's.
C20_EmptyConversionKeepsQuery ==
  LET lastQuestion == LastQuestionOf(request.history)
      unmarked == trim(IF endsWith(lastQuestion, "?")
                       THEN SubSeq(lastQuestion, 1, Len(lastQuestion) - 1)
                       ELSE lastQuestion)
  IN (/\ request.queryIsString /\ request.historyIsArray
      /\ pc \notin {"start", "catch"}
      /\ lastQuestion # ""
      /\ followUp.responseType \in {"affirmative", "negative"}
      /\ trim(removeStarter(unmarked)) = "")
       => /\ convertQuestionToQuery(lastQuestion, followUp.responseType) = ""
          /\ query = request.query

\* C21: when more than one line of the last assistant turn ends with '?', the
\* resolver finds no follow-up or a declined one, whatever the query, and the
\* working query is not rewritten from any of those lines.
C21_SeveralQuestionsDegrade ==
  (/\ request.queryIsString /\ request.historyIsArray
   /\ Len(request.history) > 0
   /\ request.history[Len(request.history)].role = "assistant"
   /\ LET lines == split(request.history[Len(request.history)].content)
      IN Cardinality({i \in 1..Len(lines) : endsWith(trim(lines[i]), "?")}) > 1)
    => /\ followUp.isFollowUp => followUp.responseType = "declined"
       /\ query = request.query

\* C22: a request whose query is trading-related or unknown and holds an escalation
\* trigger returns the escalation envelope without any call on the document index,
\* so also when the initialisation of the index or the retrieval would fail.
C22_EscalationBeforeIndex ==
  (/\ request.queryIsString /\ request.historyIsArray
   /\ pc = "done"
   /\ queryCategory \in {"trading-related", "unknown"}
   /\ requiresEscalation(query))
    => /\ envelope.confidence = "escalation"
       /\ envelope.sources = <<>>
       /\ calls.initializeVectorStore = 0
       /\ calls.searchVectorStore = 0

\* C23: within a request the completion model is invoked at most once, only after
\* the retrieval of the request returned at least one document that the scorer
\* rates high or medium; the envelope of a completion carries the sanitized
\* completion as its text and its confidence is never 'low'.
C23_CompletionAfterRetrieval ==
  /\ calls.chain <= 1
  /\ calls.chain = 1
       => /\ calls.searchVectorStore = 1
          /\ results.count >= 1
          /\ getConfidenceLevel(results.topScore, results.count) \in {"high", "medium"}
          /\ confidence = getConfidenceLevel(results.topScore, results.count)
  /\ pc = "generate" => (calls.searchVectorStore = 1 /\ calls.chain = 0)
  /\ (pc \in {"log", "done"} /\ calls.chain = 1 /\ error = "")
       => LET sent == IF pc = "log" THEN pending ELSE envelope
          IN /\ sent.response \in {finalResponse[aiResponse] : aiResponse \in RawCompletions}
             /\ sent.confidence = confidence
             /\ sent.confidence # "low"

\* a finished request whose completion held a risk warning and a sources line: the
\* envelope carries the sanitized text with medium confidence
C23_Witness ==
  /\ pc = "done" /\ calls.chain = 1 /\ error = ""
  /\ envelope.confidence = "medium"
  /\ envelope.response
       = cleanResponse(trim(" **Leverage** multiplies exposure.\n~^ **Risk Warning:** losses grow too.\nSources: faq.txt\n"))
  /\ envelope.response
       # trim(" **Leverage** multiplies exposure.\n~^ **Risk Warning:** losses grow too.\nSources: faq.txt\n")

\* C24: logging is fire-and-forget: while the webhook call of a branch is still
\* outstanding the request has already returned the envelope of that branch, so a
\* call that never completes cannot hold the response back.
C24_ReturnsBeforeWebhook ==
  pc = "log" => (outcome = "resolved" /\ envelope = pending)

\* Every awaited collaborator call returns or fails, and the thread goes on with the
\* request: a step that can be taken is taken.
TerminatingRequests ==
  {r \in Requests :
     \/ ~r.queryIsString
     \/ ~r.historyIsArray
     \/ /\ r.history = <<>>
        /\ r.query \in {"  ", "tell me a joke", "how to hack", "I cannot withdraw my funds",
                         "What is leverage?"}
     \/ /\ r.history = <<Turn("assistant", InterestQuestionText)>>
        /\ r.query \in {"yes", "no"}}

InitFair ==
  /\ request \in TerminatingRequests
  /\ query = request.query
  /\ pc = "start"
  /\ followUp = NoDetection
  /\ queryCategory = "none"
  /\ results = NoResults
  /\ confidence = "none"
  /\ pending = NoEnvelope
  /\ outcome = "pending"
  /\ envelope = NoEnvelope
  /\ calls = NoCalls
  /\ error = ""
  /\ logging = NoLogging
  /\ ScorerIdle /\ CleanerIdle /\ ClassifierIdle /\ StoreIdle /\ RouteIdle /\ ConcurrentIdle

FairSpec == InitFair /\ [][Next]_vars /\ WF_vars(Next)

\* the confidence of an envelope processQuery returns
terminalConfidences == {"high", "medium", "low", "blocked", "escalation", "error"}

\* C25: every call of processQuery comes to its end; it has then resolved with one
\* envelope whose confidence is high, medium, low, blocked, escalation or error; the
\* envelope is set once, and nothing of the request changes after it.
C25_OneTerminalEnvelope ==
  /\ <>(pc = "done")
  /\ [](pc = "done" => (outcome = "resolved" /\ envelope.confidence \in terminalConfidences))
  /\ [](pc # "done" => (outcome = "pending" /\ envelope = NoEnvelope))
  /\ [][pc = "done" => UNCHANGED pipelineVars]_vars

\* a request has ended in the error envelope after its retrieval call failed
C25_Witness ==
  /\ pc = "done" /\ outcome = "resolved" /\ envelope.confidence = "error"
  /\ calls.searchVectorStore = 1 /\ calls.chain = 0 /\ calls.logError = 1

\* C26: the classifier returns one of its six categories, never 'greeting' or
\* 'about_ai', so no request ends in the greeting or the about-AI branch: an
\* envelope of high confidence is the declined one or that of a completion.
C26_GreetingUnreachable ==
  /\ queryCategory \notin {"greeting", "about_ai"}
  /\ calls.detectQueryCategory = 1
       => queryCategory \in {"testing", "silly", "inappropriate", "unrelated",
                             "trading-related", "unknown"}
  /\ pending.confidence = "high"
       => (pending.response \in declinedResponses \/ calls.chain = 1)
  /\ envelope.confidence = "high"
       => (envelope.response \in declinedResponses \/ calls.chain = 1)

\* the greeting "hello there" went through the classifier as an unknown query and
\* on to the retrieval
C26_Witness ==
  /\ request.query = "hello there" /\ request.history = <<>>
  /\ pc = "done" /\ queryCategory = "unknown"
  /\ calls.initializeVectorStore = 1

C9_FallbackWithoutCompletion ==
  (/\ calls.searchVectorStore = 1 /\ error = ""
   /\ results.count = 0 \/ confidence = "low")
    => /\ calls.chain = 0
       /\ pc \in {"log", "done"}
       /\ pending.confidence = "low"
       /\ pending.sources = <<>>
       /\ startsWith(pending.response, "I don't have specific information")
       /\ pc = "done" => outcome = "resolved" /\ envelope = pending

\* two documents were retrieved, the better one just under the medium threshold
C9_Witness ==
  /\ results = [count |-> 2, topScore |-> 34]
  /\ pc = "done" /\ error = "" /\ envelope.confidence = "low" /\ calls.chain = 0

\* C14: a failure of the file logger or of the spreadsheet webhook (a thrown error,
\* a rejected fetch, a status that is not OK) never fails the request and never
\* changes the envelope: the request ends with the envelope its branch built before
\* it logged.
C14_LoggingNeverFailsTheRequest ==
  /\ error \notin {"log write failed", "webhook failed"}
  /\ outcome # "rejected"
  /\ pc = "log" => pending # NoEnvelope
  /\ (pc = "done" /\ error = "") =>
       /\ outcome = "resolved"
       /\ envelope = pending
       /\ envelope.confidence # "error"

\* the log file could not be written and the webhook call was rejected, and the
\* request was answered from retrieval all the same
C14_Witness ==
  /\ pc = "done" /\ error = ""
  /\ logging = [file |-> "threw", sheets |-> "rejected"]
  /\ calls.chain = 1 /\ envelope.confidence = "high"

----------------------------------------------------------------------------
(* The confidence scorer on its own: getConfidenceLevel applied to every score
   between -MaxScore and MaxScore hundredths and every count up to MaxCount.  The
   thresholds are multiples of a hundredth, so a score between two hundredths
   compares with them as the hundredth below it does. *)

Score ==
  /\ scorerPc = "ready"
  /\ level' = getConfidenceLevel(maxScore, documentCount)
  /\ scorerPc' = "done"
  /\ UNCHANGED <<maxScore, documentCount>>
  /\ UNCHANGED <<pipelineVars, cleanerVars, classifierVars, storeVars, routeVars, concurrentVars>>

InitConfidence ==
  /\ maxScore \in (0 - MaxScore)..MaxScore
  /\ documentCount \in 0..MaxCount
  /\ level = "none"
  /\ scorerPc = "ready"
  /\ PipelineIdle /\ CleanerIdle /\ ClassifierIdle /\ StoreIdle /\ RouteIdle /\ ConcurrentIdle

NextConfidence == Score

SpecConfidence == InitConfidence /\ [][NextConfidence]_vars

\* C1: getConfidenceLevel equals the decision table: low when there is no document
\* or the score is under 0.20; otherwise high when the score is at least 0.50 and
\* there are at least 2 documents; otherwise medium when the score is at least
\* 0.35; otherwise low.  (0.50, 2) is high, (0.49, 5) is medium, and a score of at
\* least 0.50 with one document is medium.
C1_DecisionTable ==
  scorerPc = "done" =>
    /\ level = CASE documentCount = 0 \/ maxScore < 20 -> "low"
                  [] documentCount # 0 /\ maxScore >= 50 /\ documentCount >= 2 -> "high"
                  [] documentCount # 0 /\ maxScore >= 35
                       /\ ~(maxScore >= 50 /\ documentCount >= 2) -> "medium"
                  [] documentCount # 0 /\ maxScore >= 20 /\ maxScore < 35 -> "low"
    /\ (maxScore = 50 /\ documentCount = 2 => level = "high")
    /\ (maxScore = 49 /\ documentCount = 5 => level = "medium")
    /\ (maxScore >= 50 /\ documentCount = 1 => level = "medium")

\* the scorer has returned for the boundary score with a single document
C1_Witness ==
  scorerPc = "done" /\ maxScore = 50 /\ documentCount = 1 /\ level = "medium"

----------------------------------------------------------------------------
(* The sanitizer on its own: cleanResponse applied to a text and then to its own
   result.  A text is up to MaxParts fragments, one after the other. *)

Fragments ==
  {"Risk ", "**", "Warning: a\n", "b", "\n", "1. ", "Would you like x?", "Sources: f"}

RECURSIVE Texts(_)
Texts(n) ==
  IF n = 0 THEN {""}
  ELSE Texts(n - 1) \cup {t \o f : t \in Texts(n - 1), f \in Fragments}

CleanOnce ==
  /\ cleanerPc = "ready"
  /\ once' = cleanResponse(text)
  /\ cleanerPc' = "once"
  /\ UNCHANGED <<text, twice>>
  /\ UNCHANGED <<pipelineVars, scorerVars, classifierVars, storeVars, routeVars, concurrentVars>>

CleanTwice ==
  /\ cleanerPc = "once"
  /\ twice' = cleanResponse(once)
  /\ cleanerPc' = "twice"
  /\ UNCHANGED <<text, once>>
  /\ UNCHANGED <<pipelineVars, scorerVars, classifierVars, storeVars, routeVars, concurrentVars>>

InitClean ==
  /\ text \in Texts(MaxParts)
  /\ once = ""
  /\ twice = ""
  /\ cleanerPc = "ready"
  /\ PipelineIdle /\ ScorerIdle /\ ClassifierIdle /\ StoreIdle /\ RouteIdle /\ ConcurrentIdle

NextClean ==
  \/ CleanOnce
  \/ CleanTwice

SpecClean == InitClean /\ [][NextClean]_vars

\* C2: the sanitizer is idempotent: cleanResponse(cleanResponse(x)) = cleanResponse(x)
\* for every text x.
C2_Idempotent == cleanerPc = "twice" => twice = once

----------------------------------------------------------------------------
(* The classifier on its own: detectQueryCategory applied to queries in three letter
   casings with up to MaxPad spaces on either side. *)

BaseQueries ==
  {"how to hack", "is this a scam", "lol sex", "are you alive or did you die",
   "Drug money", "nsfw", "killer app", "tell me a joke about weed", "test",
   "What is leverage?", "pizza or forex", "steal my dog", "I will hurt you",
   "hackathon prize", "say hi to fraud", "What's the weather today?",
   "holiday trading hours", "good morning"}

ClassifyInputs == UNION {Variants(q) : q \in BaseQueries}

ClassifyQuery ==
  /\ classifierPc = "ready"
  /\ classifyOutput' = detectQueryCategory(classifyInput)
  /\ classifierPc' = "done"
  /\ UNCHANGED classifyInput
  /\ UNCHANGED <<pipelineVars, scorerVars, cleanerVars, storeVars, routeVars, concurrentVars>>

InitClassify ==
  /\ classifyInput \in ClassifyInputs
  /\ classifyOutput = "none"
  /\ classifierPc = "ready"
  /\ PipelineIdle /\ ScorerIdle /\ CleanerIdle /\ StoreIdle /\ RouteIdle /\ ConcurrentIdle

NextClassify == ClassifyQuery

SpecClassify == InitClassify /\ [][NextClassify]_vars

\* C10, as amended: a query that matches an inappropriate pattern and neither a
\* testing nor a silly pattern is classified 'inappropriate', whatever its letter
\* casing and whatever whitespace surrounds it.
C10_InappropriateUnlessTestingOrSilly ==
  (/\ classifierPc = "done"
   /\ testAnyWord(toLowerCase(trim(classifyInput)), inappropriatePatterns)
   /\ ~testAny(toLowerCase(trim(classifyInput)), testPatternsAnywhere \cup sillyPatterns)
   /\ toLowerCase(trim(classifyInput)) \notin testPatternsWhole)
    => classifyOutput = "inappropriate"

\* an inappropriate word in capitals with a space on either side
C10_Witness ==
  /\ classifierPc = "done" /\ classifyInput = " HOW TO HACK "
  /\ classifyOutput = "inappropriate"

\* C10, as the claim states it: every query that matches an inappropriate pattern
\* is classified 'inappropriate'.
C10_InappropriateAlways ==
  (/\ classifierPc = "done"
   /\ testAnyWord(toLowerCase(trim(classifyInput)), inappropriatePatterns))
    => classifyOutput = "inappropriate"

\* C11: detectQueryCategory returns one category for every string, that of the
\* first group that matches in the order testing, silly, inappropriate, unrelated,
\* trading keyword, and 'unknown' only when no group matches; a query that matches
\* a silly and an inappropriate pattern is 'silly'.
C11_FirstMatchingGroup ==
  classifierPc = "done" =>
    /\ classifyOutput \in {"testing", "silly", "inappropriate", "unrelated",
                            "trading-related", "unknown"}
    /\ matchesTesting(classifyInput) => classifyOutput = "testing"
    /\ (~matchesTesting(classifyInput) /\ matchesSilly(classifyInput))
         => classifyOutput = "silly"
    /\ (~matchesTesting(classifyInput) /\ ~matchesSilly(classifyInput)
          /\ matchesInappropriate(classifyInput))
         => classifyOutput = "inappropriate"
    /\ (~matchesTesting(classifyInput) /\ ~matchesSilly(classifyInput)
          /\ ~matchesInappropriate(classifyInput) /\ matchesUnrelated(classifyInput))
         => classifyOutput = "unrelated"
    /\ (~matchesTesting(classifyInput) /\ ~matchesSilly(classifyInput)
          /\ ~matchesInappropriate(classifyInput) /\ ~matchesUnrelated(classifyInput)
          /\ matchesTrading(classifyInput))
         => classifyOutput = "trading-related"
    /\ classifyOutput = "unknown"
         <=> (~matchesTesting(classifyInput) /\ ~matchesSilly(classifyInput)
                /\ ~matchesInappropriate(classifyInput) /\ ~matchesUnrelated(classifyInput)
                /\ ~matchesTrading(classifyInput))

\* a query with a laughter token and an adult term
C11_Witness ==
  classifierPc = "done" /\ classifyInput = "lol sex" /\ classifyOutput = "silly"

\* C12: detectQueryCategory returns 'unrelated' only for queries that contain no
\* trading keyword.
C12_UnrelatedOnlyWithoutTradingKeyword ==
  (classifierPc = "done" /\ classifyOutput = "unrelated")
    => \A keyword \in tradingKeywords : ~includes(toLowerCase(classifyInput), keyword)

\* C18: the category of a query is the category of the query with its leading and
\* trailing whitespace removed, and the category of the query in another letter
\* casing (" test " and "TEST" are classified like "test").
C18_TrimAndCaseInsensitive ==
  classifierPc = "done" =>
    /\ classifyOutput = detectQueryCategory(trim(classifyInput))
    /\ classifyOutput = detectQueryCategory(toUpperCase(classifyInput))
    /\ classifyOutput = detectQueryCategory(toLowerCase(classifyInput))

----------------------------------------------------------------------------
(* The vector store: vectorStore.js:43-216.  The module is loaded once; loading it
   calls initializeVectorStore() (line 270), so the first build is in flight when
   the first request arrives.  JavaScript runs one callback at a time: the code
   between two awaits is one step. *)

Callers == 1..MaxCallers
Builds == 1..MaxBuilds

IdleCaller == [pc |-> "idle", op |-> "none", awaits |-> 0, store |-> 0]

\* the builds that have started and not settled
InFlight == {b \in Builds : build[b] \in {"loading", "embedding"}}

\* an initializeVectorStore without cache check #2: a call that finds no store
\* starts a build
initializeVectorStoreWithoutJoin(c, op) ==
  IF vectorStore # 0
  THEN /\ caller' = [caller EXCEPT ![c] =
                       [pc |-> "returned", op |-> op, awaits |-> 0, store |-> vectorStore]]
       /\ UNCHANGED <<vectorStore, isInitializing, initializationPromise, build, started>>
  ELSE /\ started < MaxBuilds
       /\ started' = started + 1
       /\ isInitializing' = TRUE
       /\ initializationPromise' = started + 1
       /\ build' = [build EXCEPT ![started + 1] = "loading"]
       /\ caller' = [caller EXCEPT ![c] =
                       [pc |-> "awaiting", op |-> op, awaits |-> started + 1, store |-> 0]]
       /\ UNCHANGED vectorStore

\* initializeVectorStore(), vectorStore.js:56-168, up to its return: the two cache
\* checks and the start of a build, called by caller c for the operation op
initializeVectorStore(c, op) ==
  IF vectorStore # 0
  THEN /\ caller' = [caller EXCEPT ![c] =
                       [pc |-> "returned", op |-> op, awaits |-> 0, store |-> vectorStore]]
       /\ UNCHANGED <<vectorStore, isInitializing, initializationPromise, build, started>>
  ELSE IF isInitializing /\ initializationPromise # 0
  THEN /\ caller' = [caller EXCEPT ![c] =
                       [pc |-> "awaiting", op |-> op, awaits |-> initializationPromise,
                        store |-> 0]]
       /\ UNCHANGED <<vectorStore, isInitializing, initializationPromise, build, started>>
  ELSE /\ started < MaxBuilds
       /\ started' = started + 1
       /\ isInitializing' = TRUE
       /\ initializationPromise' = started + 1
       /\ build' = [build EXCEPT ![started + 1] = "loading"]
       /\ caller' = [caller EXCEPT ![c] =
                       [pc |-> "awaiting", op |-> op, awaits |-> started + 1, store |-> 0]]
       /\ UNCHANGED vectorStore

\* a request calls await initializeVectorStore() (chains.js:647)
CallInitialize(c) ==
  /\ caller[c].pc = "idle"
  /\ initializeVectorStore(c, "init")
  /\ UNCHANGED <<pipelineVars, scorerVars, cleanerVars, classifierVars, routeVars, concurrentVars>>

\* a request calls searchVectorStore (vectorStore.js:174-182)
CallSearch(c) ==
  /\ caller[c].pc = "idle"
  /\ IF vectorStore = 0
     THEN initializeVectorStore(c, "search")
     ELSE /\ caller' = [caller EXCEPT ![c] =
                          [pc |-> "searching", op |-> "search", awaits |-> 0,
                           store |-> vectorStore]]
          /\ UNCHANGED <<vectorStore, isInitializing, initializationPromise, build, started>>
  /\ UNCHANGED <<pipelineVars, scorerVars, cleanerVars, classifierVars, routeVars, concurrentVars>>

\* vectorStore.js:89: loader.load() has returned the documents
Load(b) ==
  /\ build[b] = "loading"
  /\ build' = [build EXCEPT ![b] = "embedding"]
  /\ UNCHANGED <<vectorStore, isInitializing, initializationPromise, started, caller>>
  /\ UNCHANGED <<pipelineVars, scorerVars, cleanerVars, classifierVars, routeVars, concurrentVars>>

\* vectorStore.js:125-136 and 145-156: fromDocuments has returned the store
Complete(b) ==
  /\ build[b] = "embedding"
  /\ vectorStore' = b
  /\ isInitializing' = FALSE
  /\ build' = [build EXCEPT ![b] = "fulfilled"]
  /\ UNCHANGED <<initializationPromise, started, caller>>
  /\ UNCHANGED <<pipelineVars, scorerVars, cleanerVars, classifierVars, routeVars, concurrentVars>>

\* a failing build that leaves isInitializing set and the rejected promise in place
FailKeepsPromise(b) ==
  /\ build[b] \in {"loading", "embedding"}
  /\ isInitializing' = isInitializing
  /\ initializationPromise' = initializationPromise
  /\ build' = [build EXCEPT ![b] = "rejected"]
  /\ UNCHANGED <<vectorStore, started, caller>>
  /\ UNCHANGED <<pipelineVars, scorerVars, cleanerVars, classifierVars, routeVars, concurrentVars>>

\* vectorStore.js:158-164: an await of the build has thrown
Fail(b) ==
  /\ build[b] \in {"loading", "embedding"}
  /\ isInitializing' = FALSE
  /\ initializationPromise' = 0
  /\ build' = [build EXCEPT ![b] = "rejected"]
  /\ UNCHANGED <<vectorStore, started, caller>>
  /\ UNCHANGED <<pipelineVars, scorerVars, cleanerVars, classifierVars, routeVars, concurrentVars>>

\* the promise a caller awaits has settled and the caller runs on
Resume(c) ==
  /\ caller[c].pc = "awaiting"
  /\ build[caller[c].awaits] \in {"fulfilled", "rejected"}
  /\ caller' = [caller EXCEPT ![c] =
       IF build[caller[c].awaits] = "rejected" THEN [@ EXCEPT !.pc = "threw"]
       ELSE IF caller[c].op = "init"
       THEN [@ EXCEPT !.pc = "returned", !.store = caller[c].awaits]
       ELSE IF vectorStore = 0 THEN [@ EXCEPT !.pc = "threw"]
       ELSE [@ EXCEPT !.pc = "searching", !.store = vectorStore]]
  /\ UNCHANGED <<vectorStore, isInitializing, initializationPromise, build, started>>
  /\ UNCHANGED <<pipelineVars, scorerVars, cleanerVars, classifierVars, routeVars, concurrentVars>>

\* vectorStore.js:187-215: similaritySearchWithScore has returned or thrown
SearchDone(c) ==
  /\ caller[c].pc = "searching"
  /\ \E next \in {"returned", "threw"} : caller' = [caller EXCEPT ![c].pc = next]
  /\ UNCHANGED <<vectorStore, isInitializing, initializationPromise, build, started>>
  /\ UNCHANGED <<pipelineVars, scorerVars, cleanerVars, classifierVars, routeVars, concurrentVars>>

\* the caller has its result; the next request takes its place
Again(c) ==
  /\ caller[c].pc \in {"returned", "threw"}
  /\ caller' = [caller EXCEPT ![c] = IdleCaller]
  /\ UNCHANGED <<vectorStore, isInitializing, initializationPromise, build, started>>
  /\ UNCHANGED <<pipelineVars, scorerVars, cleanerVars, classifierVars, routeVars, concurrentVars>>

\* the state after the module is loaded: the auto-initialization of line 270 has
\* started the first build
InitStore ==
  /\ vectorStore = 0
  /\ isInitializing = TRUE
  /\ initializationPromise = 1
  /\ build = [b \in Builds |-> IF b = 1 THEN "loading" ELSE "none"]
  /\ started = 1
  /\ caller = [c \in Callers |-> IdleCaller]
  /\ PipelineIdle /\ ScorerIdle /\ CleanerIdle /\ ClassifierIdle /\ RouteIdle /\ ConcurrentIdle

NextStore ==
  \/ \E c \in Callers : CallInitialize(c)
  \/ \E c \in Callers : CallSearch(c)
  \/ \E b \in Builds : Load(b)
  \/ \E b \in Builds : Complete(b)
  \/ \E b \in Builds : Fail(b)
  \/ \E c \in Callers : Resume(c)
  \/ \E c \in Callers : SearchDone(c)
  \/ \E c \in Callers : Again(c)

SpecStore == InitStore /\ [][NextStore]_vars

\* C13: with concurrent callers of initializeVectorStore and searchVectorStore and
\* no reset, at most one build is in flight; a caller that arrives while a build is
\* in flight awaits that build and starts none; the callers that have a store have
\* the same one; and once the store is set no call starts a build.
C13_OneBuildInFlight ==
  /\ [](/\ Cardinality(InFlight) <= 1
        /\ \A c \in Callers : caller[c].store # 0 => caller[c].store = vectorStore)
  /\ [][/\ \A c \in Callers :
             (caller[c].pc = "idle" /\ caller'[c].pc # "idle" /\ InFlight # {})
               => (/\ caller'[c].pc = "awaiting"
                   /\ caller'[c].awaits \in InFlight
                   /\ started' = started)
        /\ vectorStore # 0 => (started' = started /\ vectorStore' = vectorStore)]_vars

\* both callers await the build that a caller started after the first build failed
C13_Witness ==
  /\ build[1] = "rejected" /\ build[2] = "embedding"
  /\ caller[1].pc = "awaiting" /\ caller[1].awaits = 2
  /\ caller[2].pc = "awaiting" /\ caller[2].awaits = 2

\* C30: a build that fails leaves the store unset with no build marked in flight;
\* every caller that awaited it gets the failure; the next call that finds neither
\* a store nor a build starts exactly one build and awaits it; and a store, once
\* set, is that of a build that succeeded and is the one the searches use.
C30_FailedBuildDoesNotPoison ==
  /\ [][\A b \in Builds :
          (build[b] \in {"loading", "embedding"} /\ build'[b] = "rejected")
            => (/\ vectorStore' = 0 /\ ~isInitializing' /\ initializationPromise' = 0
                /\ InFlight' = {})]_vars
  /\ [][\A c \in Callers :
          (/\ caller[c].pc = "awaiting" /\ caller'[c].pc # "awaiting"
           /\ build[caller[c].awaits] = "rejected")
            => caller'[c].pc = "threw"]_vars
  /\ [][\A c \in Callers :
          (/\ caller[c].pc = "idle" /\ caller'[c].pc # "idle"
           /\ vectorStore = 0 /\ InFlight = {})
            => (/\ started' = started + 1
                /\ InFlight' = {started'}
                /\ initializationPromise' = started' /\ isInitializing'
                /\ caller'[c].pc = "awaiting" /\ caller'[c].awaits = started')]_vars
  /\ [](vectorStore # 0
          => (/\ build[vectorStore] = "fulfilled"
              /\ \A c \in Callers :
                   caller[c].pc = "searching" => caller[c].store = vectorStore))

\* the first build failed and a caller got the failure; the build the next call
\* started succeeded and a search runs on its store
C30_Witness ==
  /\ build[1] = "rejected" /\ build[2] = "fulfilled" /\ vectorStore = 2
  /\ caller[1].pc = "threw" /\ caller[1].awaits = 1
  /\ caller[2].pc = "searching" /\ caller[2].store = 2

\* resetVectorStore(), vectorStore.js:258-264: the three variables are cleared; a
\* build in flight is not told and runs on
resetVectorStore ==
  /\ vectorStore' = 0
  /\ isInitializing' = FALSE
  /\ initializationPromise' = 0
  /\ UNCHANGED <<build, started, caller>>
  /\ UNCHANGED <<pipelineVars, scorerVars, cleanerVars, classifierVars, routeVars, concurrentVars>>

\* the store with resets: resetVectorStore may be called between any two steps
NextStoreReset ==
  \/ \E c \in Callers : CallInitialize(c)
  \/ \E c \in Callers : CallSearch(c)
  \/ \E b \in Builds : Load(b)
  \/ \E b \in Builds : Complete(b)
  \/ \E b \in Builds : Fail(b)
  \/ \E c \in Callers : Resume(c)
  \/ \E c \in Callers : SearchDone(c)
  \/ \E c \in Callers : Again(c)
  \/ resetVectorStore

SpecStoreReset == InitStore /\ [][NextStoreReset]_vars

\* C29: with resetVectorStore called at any point there are never two builds in
\* flight, and the store that is installed is the one of the build the module
\* currently promises, never that of a build started before a reset.
C29_ResetKeepsOneBuild ==
  /\ Cardinality(InFlight) <= 1
  /\ vectorStore # 0 => initializationPromise = vectorStore

----------------------------------------------------------------------------
(* The route: POST /api/chat, routes/chat.js:11-88.  The handler validates the
   body, awaits processQuery and sends its envelope; its catch block maps the
   message of a caught error to a status. *)

BadRequest(code, message) ==
  [status |-> 400, code |-> code, error |-> message, message |-> "", response |-> "",
   confidence |-> "", sources |-> <<>>, metadata |-> "none"]

\* chat.js:13-42: the validation of the body and the call of processQuery
Receive ==
  /\ routePc = "received"
  /\ IF ~body.queryIsString \/ body.query = ""
     THEN /\ http' = BadRequest("INVALID_QUERY", "Query is required and must be a string")
          /\ routePc' = "responded"
          /\ UNCHANGED <<request, query, pc>>
     ELSE IF Len(trim(body.query)) = 0
     THEN /\ http' = BadRequest("EMPTY_QUERY", "Query cannot be empty")
          /\ routePc' = "responded"
          /\ UNCHANGED <<request, query, pc>>
     ELSE IF Len(body.query) > maxQueryLength
     THEN /\ http' = BadRequest("QUERY_TOO_LONG", "Query is too long (max 500 characters)")
          /\ routePc' = "responded"
          /\ UNCHANGED <<request, query, pc>>
     ELSE /\ request' = RouteRequest(body)
          /\ query' = body.query
          /\ pc' = "start"
          /\ routePc' = "processing"
          /\ http' = http
  /\ UNCHANGED <<followUp, queryCategory, results, confidence, pending, outcome, envelope,
                 calls, error, logging>>
  /\ UNCHANGED <<body, nodeEnv>>
  /\ UNCHANGED <<scorerVars, cleanerVars, classifierVars, storeVars, concurrentVars>>

\* chat.js:64-86: the status, the code and the fields the catch block sends
ErrorResponse(message) ==
  [status |-> IF includes(message, "API key") THEN 500
              ELSE IF includes(message, "timeout") THEN 504
              ELSE IF includes(message, "rate limit") THEN 429
              ELSE 500,
   code |-> IF includes(message, "API key") THEN "API_KEY_ERROR"
            ELSE IF includes(message, "timeout") THEN "TIMEOUT"
            ELSE IF includes(message, "rate limit") THEN "RATE_LIMIT"
            ELSE "INTERNAL_ERROR",
   error |-> IF includes(message, "API key") THEN "AI service configuration error"
             ELSE IF includes(message, "timeout") THEN "Request timed out"
             ELSE IF includes(message, "rate limit") THEN "Too many requests"
             ELSE "An error occurred processing your request",
   message |-> IF nodeEnv = "development" THEN message ELSE "",
   response |-> "", confidence |-> "", sources |-> <<>>, metadata |-> "none"]

\* chat.js:42-86: processQuery has settled; a resolved promise is sent as it is
\* (with a timestamp added to the metadata), a rejected one goes to the catch block
Respond ==
  /\ routePc = "processing"
  /\ pc = "done"
  /\ http' = IF outcome = "resolved"
             THEN [status |-> 200, code |-> "", error |-> "", message |-> "",
                   response |-> envelope.response, confidence |-> envelope.confidence,
                   sources |-> envelope.sources, metadata |-> envelope.metadata]
             ELSE ErrorResponse(error)
  /\ routePc' = "responded"
  /\ UNCHANGED pipelineVars
  /\ UNCHANGED <<body, nodeEnv>>
  /\ UNCHANGED <<scorerVars, cleanerVars, classifierVars, storeVars, concurrentVars>>

InitRoute ==
  /\ body \in RouteBodies
  /\ nodeEnv \in {"production", "development"}
  /\ routePc = "received"
  /\ http = NoHttp
  /\ PipelineIdle /\ ScorerIdle /\ CleanerIdle /\ ClassifierIdle /\ StoreIdle
  /\ ConcurrentIdle

\* The body the handler passes on is a non-empty string and its history is an
\* array, so the validation of processQuery (Validate) never throws here.
NextRoute ==
  \/ Receive
  \/ ResolveFollowUp
  \/ Classify
  \/ InitializeStore
  \/ CheckEscalation
  \/ Search
  \/ Generate
  \/ ReturnEnvelope
  \/ Catch
  \/ Respond

SpecRoute == InitRoute /\ [][NextRoute]_vars

\* C15: for a valid query, a timeout of an upstream call gives HTTP 504 with code
\* TIMEOUT, a rate-limit failure HTTP 429 with code RATE_LIMIT, and a credential
\* failure HTTP 500 with code API_KEY_ERROR.
C15_UpstreamFailureStatus ==
  routePc = "responded" =>
    /\ error = "Request timeout" => (http.status = 504 /\ http.code = "TIMEOUT")
    /\ error = "429 rate limit exceeded" => (http.status = 429 /\ http.code = "RATE_LIMIT")
    /\ error = "Incorrect API key provided"
         => (http.status = 500 /\ http.code = "API_KEY_ERROR")

\* C16: in a production configuration no field of the response body, the metadata
\* of the envelope included, carries the message of the caught error.
C16_NoErrorDetailInProduction ==
  (routePc = "responded" /\ nodeEnv = "production" /\ error # "") =>
    /\ http.message # error
    /\ http.confidence = "error" => http.metadata.error # error

----------------------------------------------------------------------------
(* Two calls of processQuery on the one thread.  Every variable of processQuery is
   a parameter or a local of the call (chains.js:325-833), so each call has its own
   activation; the thread runs one call until it reaches an await (chains.js:647,
   694, 762 and the awaited logToGoogleSheets of every branch) and may then go on
   with the other one. *)

\* the positions at which a call waits for an awaited collaborator
SuspensionPoints == {"init", "search", "generate", "log"}

\* a working query kept in a variable of the module instead of the call: the call
\* that is resumed finds the value the other call left there
activationQueryShared(a) == query

\* the working query a resumed call sees: the parameter `query` of its own activation
activationQuery(a) == a.query

\* the thread leaves the running call at its await, or after its return, and
\* begins or resumes the other call
Switch ==
  /\ running # 0
  /\ pc \in SuspensionPoints \cup {"done"}
  /\ suspended.pc # "done"
  /\ running' = 3 - running
  /\ suspended' = Activation
  /\ request' = suspended.request
  /\ query' = activationQuery(suspended)
  /\ pc' = suspended.pc
  /\ followUp' = suspended.followUp
  /\ queryCategory' = suspended.queryCategory
  /\ results' = suspended.results
  /\ confidence' = suspended.confidence
  /\ pending' = suspended.pending
  /\ outcome' = suspended.outcome
  /\ envelope' = suspended.envelope
  /\ calls' = suspended.calls
  /\ error' = suspended.error
  /\ logging' = suspended.logging
  /\ UNCHANGED <<scorerVars, cleanerVars, classifierVars, storeVars, routeVars>>

Begun(r) == [NoActivation EXCEPT !.request = r, !.query = r.query, !.pc = "start"]

LeverageRequest ==
  [query |-> "What is leverage?", queryIsString |-> TRUE, history |-> <<>>,
   historyIsArray |-> TRUE]

WithdrawalRequest ==
  [query |-> "I cannot withdraw my funds", queryIsString |-> TRUE, history |-> <<>>,
   historyIsArray |-> TRUE]

YesRequest ==
  [query |-> "yes", queryIsString |-> TRUE,
   history |-> <<Turn("assistant", InterestQuestionText)>>, historyIsArray |-> TRUE]

NoRequest ==
  [query |-> "no", queryIsString |-> TRUE,
   history |-> <<Turn("assistant", InterestQuestionText)>>, historyIsArray |-> TRUE]

ConcurrentRequests == {LeverageRequest, WithdrawalRequest, YesRequest, NoRequest}

\* the two calls in progress: the first one made and the one made during its await
ConcurrentPairs == ConcurrentRequests \X ConcurrentRequests

InitConcurrent ==
  /\ running = 1
  /\ \E pair \in ConcurrentPairs :
       /\ request = pair[1]
       /\ query = pair[1].query
       /\ suspended = Begun(pair[2])
  /\ pc = "start"
  /\ followUp = NoDetection
  /\ queryCategory = "none"
  /\ results = NoResults
  /\ confidence = "none"
  /\ pending = NoEnvelope
  /\ outcome = "pending"
  /\ envelope = NoEnvelope
  /\ calls = NoCalls
  /\ error = ""
  /\ logging = NoLogging
  /\ ScorerIdle /\ CleanerIdle /\ ClassifierIdle /\ StoreIdle /\ RouteIdle

NextConcurrent ==
  \/ ResolveFollowUp
  \/ Classify
  \/ InitializeStore
  \/ CheckEscalation
  \/ Search
  \/ Generate
  \/ ReturnEnvelope
  \/ Catch
  \/ Switch

SpecConcurrent == InitConcurrent /\ [][NextConcurrent]_vars

\* the working query of a call run on its own: chains.js:339-419
RewrittenQuery ==
  [r \in ConcurrentRequests |->
     LET lastQuestion == LastQuestionOf(r.history)
         detection == detectFollowUpResponse(r.query, lastQuestion)
         followUpQuery == convertQuestionToQuery(lastQuestion, detection.responseType)
     IN IF lastQuestion # "" /\ detection.isFollowUp
             /\ detection.responseType # "declined" /\ followUpQuery # ""
        THEN followUpQuery ELSE r.query]

\* whether a call run on its own returns the declined envelope: chains.js:354-404
Declines ==
  [r \in ConcurrentRequests |->
     LET lastQuestion == LastQuestionOf(r.history)
         detection == detectFollowUpResponse(r.query, lastQuestion)
     IN lastQuestion # "" /\ detection.isFollowUp /\ detection.responseType = "declined"]

\* the category and the escalation check of a call run on its own: chains.js:422, 650
AloneCategory == [r \in ConcurrentRequests |-> detectQueryCategory(RewrittenQuery[r])]

AloneEscalates == [r \in ConcurrentRequests |-> requiresEscalation(RewrittenQuery[r])]

\* the finished call a computed its envelope from its own arguments and from the
\* answers its own collaborator calls gave (a.results, a.error), as a call run
\* alone does: chains.js:325-833
RunAlone(a) ==
  IF Declines[a.request]
  THEN /\ a.envelope.response \in declinedResponses
       /\ a.envelope.confidence = "high"
       /\ a.envelope.metadata = "declined"
       /\ a.query = a.request.query
  ELSE /\ a.query = RewrittenQuery[a.request]
       /\ a.queryCategory = AloneCategory[a.request]
       /\ IF a.queryCategory \in DOMAIN personalityConfidence
          THEN /\ a.envelope.response \in getPersonalityResponse(a.queryCategory)
               /\ a.envelope.confidence = personalityConfidence[a.queryCategory]
          ELSE IF a.error # ""
          THEN a.envelope = Envelope(errorResponse, "error", [error |-> a.error])
          ELSE IF AloneEscalates[a.request]
          THEN a.envelope = Envelope(escalationTemplate(supportEmail, "this issue"),
                                     "escalation", "escalated")
          ELSE IF getConfidenceLevel(a.results.topScore, a.results.count) = "low"
                    \/ a.results.count = 0
          THEN a.envelope = Envelope(fallbackResponse, "low",
                                     [retrievedDocs |-> 0, topScore |-> 0])
          ELSE /\ a.envelope.confidence
                    = getConfidenceLevel(a.results.topScore, a.results.count)
               /\ a.envelope.sources = <<>>
               /\ a.envelope.metadata = [retrievedDocs |-> a.results.count,
                                         topScore |-> a.results.topScore]
               /\ \E aiResponse \in RawCompletions :
                    a.envelope.response = finalResponse[aiResponse]

\* C17: whatever the interleaving of two calls at their awaits, the envelope of
\* each finished call is the one the call computes alone from its own arguments and
\* its own collaborator answers; its working query and category are its own.
C17_ConcurrentRequestsIndependent ==
  /\ (pc = "done" /\ outcome = "resolved") => RunAlone(Activation)
  /\ (suspended.pc = "done" /\ suspended.outcome = "resolved") => RunAlone(suspended)

\* the first call has returned its escalation envelope after the second call began
\* and reached its own await with a query that needs no escalation
C17_Witness ==
  /\ running = 1 /\ pc = "done" /\ outcome = "resolved"
  /\ envelope.confidence = "escalation"
  /\ suspended.pc = "search"
  /\ suspended.query = "What is leverage?"
  /\ suspended.calls.initializeVectorStore = 1

====
